---- MODULE Spec2Model ----
(***************************************************************************)
(* A model of the scheduling application: the three-phase allocation       *)
(* engine (models/initial_scheduling.py, create_initial_schedule), the     *)
(* hand-over of its output to the session (app.py) and the order           *)
(* lifecycle and mutators of services/schedule_service.py.                 *)
(*                                                                         *)
(* Time is counted in whole minutes: a timestamp is a number of minutes    *)
(* since the session began, and (stop - start).total_seconds() / 60 is the *)
(* difference of two timestamps.  isoformat / fromisoformat keep a         *)
(* datetime to the microsecond, so the stored session bounds are the       *)
(* timestamps themselves.                                                  *)
(***************************************************************************)
EXTENDS Integers, Sequences, FiniteSets, TLC

VARIABLES
    pc,                          \* position of the run: "shifts", "init", "phase1", "phase2",
                                 \*   "phase3", "ready" (returned and stored), "raised",
                                 \*   "initialize_raised", "empty" or "load_raised"
    shifts_df,                   \* input: the shift records of the day, in row order
    technicians_df,              \* input: the working technicians, in row order
    merged_orders,               \* input: the classified orders, in row order
    orders_df,                   \* the orders sorted by (Priority_Num, routing time desc)
    technician_working_time,     \* Matricule -> remaining minutes
    technician_assigned_time,    \* Matricule -> minutes assigned so far
    scheduled_order_indices,     \* indices of orders_df consumed so far
    technicians_assigned_phase1, \* technicians seeded by Phase 1
    todo,                        \* the indices the current loop still has to visit
    schedule,                    \* the entries appended so far
    initial_schedule_df,         \* session: the schedule table
    unscheduled_orders_df,       \* session: the unscheduled orders (indices of orders_df)
    files,                       \* the schedule and unscheduled files on disk
    clock,                       \* the latest reading of datetime.now()
    edits                        \* how many mutator calls have changed the table

vars == <<pc, shifts_df, technicians_df, merged_orders, orders_df,
          technician_working_time, technician_assigned_time, scheduled_order_indices,
          technicians_assigned_phase1, todo, schedule, initial_schedule_df,
          unscheduled_orders_df, files, clock, edits>>

engineVars == <<technician_working_time, technician_assigned_time,
                scheduled_order_indices, technicians_assigned_phase1, todo,
                schedule>>

sessionVars == <<initial_schedule_df, unscheduled_orders_df, files, clock, edits>>

(***************************************************************************)
(* Bounds of the model.                                                    *)
(***************************************************************************)
MaxOrders == 3
MaxTechs == 2
MaxEdits == 1
MaxClock == 120
TickMinutes == 60
MaxSessions == 2

(***************************************************************************)
(* Values                                                                  *)
(***************************************************************************)
\* None / NaT in a timestamp column.
NoneT == -1

\* A priority cell: a string, an integer, a float (of a float64 column, n its
\* whole value) or None / NaN.
PStr(s) == [t |-> "str", s |-> s, n |-> 0]
PInt(n) == [t |-> "int", s |-> "", n |-> n]
PFloat(n) == [t |-> "float", s |-> "", n |-> n]
PNone == [t |-> "none", s |-> "", n |-> 0]

\* float('inf'), above every routing time.
Infinity == 1000000

\* Variant: the second bucket starts one minute late.
CLASS_THRESHOLDS_Late ==
    <<[lo |-> 0, hi |-> 161, class |-> "Low", code |-> 1],
      [lo |-> 161, hi |-> 320, class |-> "Medium", code |-> 2],
      [lo |-> 320, hi |-> 480, class |-> "High", code |-> 3],
      [lo |-> 480, hi |-> Infinity, class |-> "Very High", code |-> 4]>>

\* Config.CLASS_THRESHOLDS: (from, to, class, class code).
CLASS_THRESHOLDS ==
    <<[lo |-> 0, hi |-> 160, class |-> "Low", code |-> 1],
      [lo |-> 160, hi |-> 320, class |-> "Medium", code |-> 2],
      [lo |-> 320, hi |-> 480, class |-> "High", code |-> 3],
      [lo |-> 480, hi |-> Infinity, class |-> "Very High", code |-> 4]>>

\* classify_order(routing_time) of models/orders.py, which app.py imports (lines
\* 601, 673) and which is not among the sources: modelled from section 4.1 of
\* the specification, "return (label, code) using ordered half-open buckets",
\* on the buckets of Config.CLASS_THRESHOLDS.  The first bucket [lo, hi) that
\* holds the routing time gives the pair.
classify_order(t) ==
    LET k == CHOOSE k \in 1..Len(CLASS_THRESHOLDS) :
                /\ CLASS_THRESHOLDS[k].lo <= t /\ t < CLASS_THRESHOLDS[k].hi
                /\ \A j \in 1..(k - 1) :
                       ~(CLASS_THRESHOLDS[j].lo <= t /\ t < CLASS_THRESHOLDS[j].hi)
    IN  <<CLASS_THRESHOLDS[k].class, CLASS_THRESHOLDS[k].code>>

\* The 'Class Code' column of the products catalog: the code classify_order
\* gives the product's routing time.
ClassCode(t) == classify_order(t)[2]

\* The dtype pandas gives the Priority column of the orders it read: object when
\* a cell holds text, float64 when the cells are numbers and empty cells, int64
\* when every cell is a number.
PriorityDtype(orders) ==
    IF \E i \in 1..Len(orders) : orders[i].Priority.t = "str" THEN "object"
    ELSE IF \E i \in 1..Len(orders) : orders[i].Priority.t = "none" THEN "float64"
    ELSE "int64"

\* fillna('None').astype(str).str.strip() on a priority cell of the column: a
\* number of a float64 column is written with its decimal point ('0.0').
PriorityText(p, orders) ==
    IF p.t = "none" THEN "None"
    ELSE IF p.t = "int"
         THEN IF PriorityDtype(orders) = "float64"
              THEN ToString(p.n) \o ".0"
              ELSE ToString(p.n)
    ELSE p.s

\* priority_mapping, with fillna(999).
Priority_Num(s) ==
    IF s \in {"Urgent", "urgent", "0"} THEN 0
    ELSE IF s \in {"A", "a"} THEN 1
    ELSE IF s \in {"B", "b"} THEN 2
    ELSE IF s \in {"C", "c"} THEN 3
    ELSE 999

\* 'Priority': order['Priority'] if order['Priority'] != 'None' else None
EntryPriority(s) == IF s = "None" THEN PNone ELSE PStr(s)

Range(f) == {f[x] : x \in DOMAIN f}

Max(a, b) == IF a >= b THEN a ELSE b

RECURSIVE SumSeq(_)
SumSeq(s) == IF s = <<>> THEN 0 ELSE Head(s) + SumSeq(Tail(s))

(***************************************************************************)
(* Inputs                                                                  *)
(***************************************************************************)
RoutingTimes == {100, 350, 500}
InputPriorities == {PStr("A"), PNone}
\* (expertise, working time) of a technician: 480 + 30 - break + extra minutes.
TechProfiles == {<<4, 510>>, <<1, 510>>, <<1, 400>>}

\* A row of the working-technicians table; the Matricule is the row's place.
TechRow(m, e, w) ==
    [Matricule |-> m, Name |-> <<"tech", m>>, Expertise |-> e, WorkingTime |-> w]

\* A row of the merged orders table; the routing time and the class code come
\* from the catalog, which classifies the routing time of the order's SAP.  The
\* catalog has one product for each routing time, and the SAP is named by it.
OrderRow(id, rt, p) ==
    [OrderID |-> id, SAP |-> rt, routing |-> rt, ClassCode |-> ClassCode(rt),
     Priority |-> p]

TechTables(n) ==
    UNION {{[m \in 1..k |-> TechRow(m, f[m][1], f[m][2])] :
              f \in [1..k -> TechProfiles]} : k \in 0..n}

OrderTables(n) ==
    UNION {{[i \in 1..k |-> OrderRow(i, f[i][1], f[i][2])] :
              f \in [1..k -> RoutingTimes \X InputPriorities]} : k \in 0..n}

(***************************************************************************)
(* calculate_working_time                                                  *)
(***************************************************************************)
\* A missing number in a shift record.
NaN == NoneT

\* A row of the shifts file; the Matricule is the row's place.
ShiftRow(m, working, to_another, break, extra) ==
    [Matricule |-> m, Name |-> <<"tech", m>>, Working |-> working,
     ToAnother |-> to_another, Break |-> break, ExtraTime |-> extra]

\* The technicians file: the expertise class of each Matricule.
ExpertiseClass(mat) == IF mat = 1 THEN 4 ELSE 1

\* str.strip() on the cells the shift records are written with.
strip(s) ==
    IF s = " Yes " THEN "Yes"
    ELSE IF s = "no " THEN "no"
    ELSE s

\* str.lower() on the cells the shift records are written with.
lower(s) ==
    IF s \in {"Yes", "YES"} THEN "yes"
    ELSE IF s \in {"No", "NO"} THEN "no"
    ELSE s

\* fillna(0) on a number cell.
fillna(v) == IF v = NaN THEN 0 ELSE v

\* Line 58, and Config.STANDARD_WORKDAY_MINUTES and Config.LUNCH_BREAK_MINUTES.
STANDARD_WORKDAY_MINUTES == 480

LUNCH_BREAK_MINUTES == 30

\* Variant: a technician sent to another line is kept.
calculate_working_time_KeepTransferred(shifts) ==
    LET Works(r) == lower(strip(r.Working)) = "yes"
        working_technicians == SelectSeq(shifts, Works)
    IN  [k \in 1..Len(working_technicians) |->
            LET r == working_technicians[k]
            IN  TechRow(r.Matricule, ExpertiseClass(r.Matricule),
                        STANDARD_WORKDAY_MINUTES + LUNCH_BREAK_MINUTES
                            - fillna(r.Break) + fillna(r.ExtraTime))]

\* calculate_working_time: the shift records with Working 'yes' and To another
\* 'no', each with its Working Time and, merged in, its Expertise Class.
calculate_working_time(shifts) ==
    LET Works(r) ==
            lower(strip(r.Working)) = "yes" /\ lower(strip(r.ToAnother)) = "no"
        working_technicians == SelectSeq(shifts, Works)
    IN  [k \in 1..Len(working_technicians) |->
            LET r == working_technicians[k]
            IN  TechRow(r.Matricule, ExpertiseClass(r.Matricule),
                        STANDARD_WORKDAY_MINUTES + LUNCH_BREAK_MINUTES
                            - fillna(r.Break) + fillna(r.ExtraTime))]

\* Line 229 of app.py: the working technicians of the day, from the shifts file.
CalculateWorkingTime ==
    /\ pc = "shifts"
    /\ technicians_df' = calculate_working_time(shifts_df)
    /\ pc' = "init"
    /\ UNCHANGED <<shifts_df, merged_orders, orders_df, engineVars, sessionVars>>

(***************************************************************************)
(* create_initial_schedule: pre-processing                                 *)
(***************************************************************************)
\* Variant: the routing time ascending, shorter jobs first.
OrderBefore_TimeAscending(a, b) ==
    \/ a.Priority_Num < b.Priority_Num
    \/ a.Priority_Num = b.Priority_Num /\ a.routing < b.routing

\* The sort key of an order row: (Priority_Num ascending, routing time descending).
OrderBefore(a, b) ==
    \/ a.Priority_Num < b.Priority_Num
    \/ a.Priority_Num = b.Priority_Num /\ a.routing > b.routing

\* Insertion of row r, which precedes every row of s in the input, into the
\* sorted sequence s: after the rows that sort strictly before it, before its equals.
RECURSIVE InsertSorted(_, _)
InsertSorted(r, s) ==
    IF s = <<>> THEN <<r>>
    ELSE IF OrderBefore(Head(s), r) THEN <<Head(s)>> \o InsertSorted(r, Tail(s))
    ELSE <<r>> \o s

\* sort_values(by=['Priority_Num', 'routing time'], ascending=[True, False]):
\* rows equal on both keys keep their input order.
RECURSIVE SortOrders(_)
SortOrders(s) ==
    IF s = <<>> THEN <<>>
    ELSE InsertSorted(Head(s), SortOrders(Tail(s)))

\* Lines 81-83: the cleaned priority text and its numeric key.
WithPriorityNum(o, orders) ==
    [OrderID |-> o.OrderID, SAP |-> o.SAP, routing |-> o.routing,
     ClassCode |-> o.ClassCode,
     Priority |-> PriorityText(o.Priority, orders),
     Priority_Num |-> Priority_Num(PriorityText(o.Priority, orders))]

PreparedOrders(orders) ==
    SortOrders([i \in 1..Len(orders) |-> WithPriorityNum(orders[i], orders)])

tech_list == [m \in 1..Len(technicians_df) |-> technicians_df[m].Matricule]

\* set_index('Matricule'): the row of the technician with the Matricule.
TechnicianOf(mat) ==
    technicians_df[CHOOSE k \in 1..Len(technicians_df) :
                       technicians_df[k].Matricule = mat]

technician_expertise == [m \in Range(tech_list) |-> TechnicianOf(m).Expertise]

technician_initial_time == [m \in Range(tech_list) |-> TechnicianOf(m).WorkingTime]

technician_names == [m \in Range(tech_list) |-> TechnicianOf(m).Name]

(***************************************************************************)
(* create_initial_schedule: the three phases                               *)
(***************************************************************************)
\* A remark cell: a fixed text, or the text mark_as_blocked formats from the
\* reason and the minutes.
RemarkText(s) == [text |-> s, reason |-> "", minutes |-> 0]

CapacityFillRemark == RemarkText("Capacity fill - may not match expertise")

\* Variant: the expertise test always passes.
can_do_expertise_Always(mat, order) == TRUE

\* can_do_expertise / can_do: the technician's expertise covers the class code.
can_do_expertise(mat, order) == technician_expertise[mat] >= order.ClassCode

\* Variant: the capacity test always passes.
has_time_Always(mat, order) == TRUE

\* has_time: the technician's remaining minutes cover the routing time.
has_time(mat, order) == technician_working_time[mat] >= order.routing

\* The dict appended to schedule; Phase records which loop appended it.
NewEntry(order, mat, remark, phase) ==
    [OrderID |-> order.OrderID,
     SAP |-> order.SAP,
     RoutingTime |-> order.routing,
     RemainingTime |-> order.routing,
     Technician |-> mat,
     TechnicianName |-> technician_names[mat],
     Status |-> "Planned",
     Remark |-> remark,
     Priority |-> EntryPriority(order.Priority),
     ClassCode |-> order.ClassCode,
     RemainingRoutingTime |-> order.routing,
     Phase |-> phase]

\* Variant: the remaining minutes are not decremented.
DecrementWorkingTime_None(wt, mat, order) == wt

\* technician_working_time[tech_matricule] -= order['routing time']
DecrementWorkingTime(wt, mat, order) == [wt EXCEPT ![mat] = @ - order.routing]

\* technician_assigned_time[tech_matricule] += order['routing time']
IncrementAssignedTime(at, mat, order) == [at EXCEPT ![mat] = @ + order.routing]

\* The four updates every phase makes when it assigns an order.
AssignOrder(order_idx, mat, remark, phase) ==
    LET order == orders_df[order_idx]
    IN  /\ schedule' = Append(schedule, NewEntry(order, mat, remark, phase))
        /\ technician_working_time' =
               DecrementWorkingTime(technician_working_time, mat, order)
        /\ technician_assigned_time' =
               IncrementAssignedTime(technician_assigned_time, mat, order)
        /\ scheduled_order_indices' = scheduled_order_indices \cup {order_idx}

\* Variant: the later phases take every order, consumed or not.
RemainingOrders_All(scheduled) == [i \in 1..Len(orders_df) |-> i]

\* orders_df[~orders_df.index.isin(scheduled_order_indices)], as its index.
RemainingOrders(scheduled) ==
    SelectSeq([i \in 1..Len(orders_df) |-> i], LAMBDA i : i \notin scheduled)

\* Lines 70-112: clean and sort the orders, set up the tracking dictionaries.
Prepare ==
    /\ pc = "init"
    /\ orders_df' = PreparedOrders(merged_orders)
    /\ technician_working_time' = technician_initial_time
    /\ technician_assigned_time' = [m \in Range(tech_list) |-> 0]
    /\ scheduled_order_indices' = {}
    /\ technicians_assigned_phase1' = {}
    /\ schedule' = <<>>
    /\ todo' = [i \in 1..Len(merged_orders) |-> i]
    /\ pc' = "phase1"
    /\ UNCHANGED <<shifts_df, technicians_df, merged_orders, sessionVars>>

\* The technicians the inner loop of Phase 1 would accept for the order.
Phase1Candidates(order) ==
    {m \in Range(tech_list) :
        /\ m \notin technicians_assigned_phase1
        /\ can_do_expertise(m, order)
        /\ has_time(m, order)}

\* The first technician of tech_list among S.
FirstOf(S) == CHOOSE m \in S : \A n \in S : m <= n

\* Lines 123-169: one iteration of the Phase 1 loop that does not break.
Phase1Step ==
    /\ pc = "phase1"
    /\ todo /= <<>>
    /\ LET order_idx == Head(todo)
           order == orders_df[order_idx]
       IN  IF order_idx \in scheduled_order_indices
           THEN UNCHANGED <<technician_working_time, technician_assigned_time,
                            scheduled_order_indices, technicians_assigned_phase1,
                            schedule>>
           ELSE /\ Cardinality(technicians_assigned_phase1) < Len(tech_list)
                /\ IF Phase1Candidates(order) = {}
                   THEN UNCHANGED <<technician_working_time, technician_assigned_time,
                                    scheduled_order_indices,
                                    technicians_assigned_phase1, schedule>>
                   ELSE LET mat == FirstOf(Phase1Candidates(order))
                        IN  /\ AssignOrder(order_idx, mat, RemarkText(""), 1)
                            /\ technicians_assigned_phase1' =
                                   technicians_assigned_phase1 \cup {mat}
    /\ todo' = Tail(todo)
    /\ UNCHANGED <<pc, shifts_df, technicians_df, merged_orders, orders_df, sessionVars>>

\* Lines 128-129 and 179: the Phase 1 loop ends (orders exhausted, or every
\* technician seeded) and Phase 2 takes the orders still unassigned.
Phase1Exit ==
    /\ pc = "phase1"
    /\ \/ todo = <<>>
       \/ /\ todo /= <<>>
          /\ Head(todo) \notin scheduled_order_indices
          /\ Cardinality(technicians_assigned_phase1) >= Len(tech_list)
    /\ pc' = "phase2"
    /\ todo' = RemainingOrders(scheduled_order_indices)
    /\ UNCHANGED <<shifts_df, technicians_df, merged_orders, orders_df, technician_working_time,
                   technician_assigned_time, scheduled_order_indices,
                   technicians_assigned_phase1, schedule, sessionVars>>

\* Lexicographic order on triples of numbers.
LexLess(a, b) ==
    \/ a[1] < b[1]
    \/ a[1] = b[1] /\ a[2] < b[2]
    \/ a[1] = b[1] /\ a[2] = b[2] /\ a[3] < b[3]

\* The head of a list of technicians after a stable sort by key: the least key,
\* and among equal keys the technician that comes first in tech_list.
BestBy(S, key) ==
    CHOOSE m \in S :
        \A n \in S \ {m} :
            \/ LexLess(key[m], key[n])
            \/ key[m] = key[n] /\ m < n

\* Variant: Phase 2 takes only the technicians whose expertise is the class code.
Phase2Candidates_ExactMatch(order) ==
    {m \in Range(tech_list) : technician_expertise[m] = order.ClassCode /\ has_time(m, order)}

\* Phase 2 candidates: expertise and time.
Phase2Candidates(order) ==
    {m \in Range(tech_list) : can_do_expertise(m, order) /\ has_time(m, order)}

\* Variant: the key without the preference for an exact expertise match.
Phase2Key_NoExact(mat, order) ==
    <<technician_assigned_time[mat], 0, 0 - technician_working_time[mat]>>

\* Lines 206-210: (least assigned, exact expertise match first, most time left).
Phase2Key(mat, order) ==
    <<technician_assigned_time[mat],
      IF technician_expertise[mat] = order.ClassCode THEN -1 ELSE 0,
      0 - technician_working_time[mat]>>

\* Lines 182-238: one iteration of the Phase 2 loop.
Phase2Step ==
    /\ pc = "phase2"
    /\ todo /= <<>>
    /\ LET order_idx == Head(todo)
           order == orders_df[order_idx]
           key == [m \in Phase2Candidates(order) |-> Phase2Key(m, order)]
       IN  IF Phase2Candidates(order) = {}
           THEN UNCHANGED <<technician_working_time, technician_assigned_time,
                            scheduled_order_indices, schedule>>
           ELSE AssignOrder(order_idx, BestBy(Phase2Candidates(order), key),
                            RemarkText(""), 2)
    /\ todo' = Tail(todo)
    /\ UNCHANGED <<pc, shifts_df, technicians_df, merged_orders, orders_df,
                   technicians_assigned_phase1, sessionVars>>

\* Line 250: Phase 2 is over; Phase 3 takes the orders still unassigned.
Phase2Exit ==
    /\ pc = "phase2"
    /\ todo = <<>>
    /\ pc' = "phase3"
    /\ todo' = RemainingOrders(scheduled_order_indices)
    /\ UNCHANGED <<shifts_df, technicians_df, merged_orders, orders_df, technician_working_time,
                   technician_assigned_time, scheduled_order_indices,
                   technicians_assigned_phase1, schedule, sessionVars>>

\* Variant: Phase 3 keeps the expertise test of Phase 2.
Phase3Candidates_WithExpertise(order) ==
    {m \in Range(tech_list) : can_do_expertise(m, order) /\ has_time(m, order)}

\* Phase 3 candidates: time only.
Phase3Candidates(order) == {m \in Range(tech_list) : has_time(m, order)}

\* Line 271: (least assigned, most time left).
Phase3Key(mat) ==
    <<technician_assigned_time[mat], 0 - technician_working_time[mat], 0>>

\* Lines 253-297: one iteration of the Phase 3 loop.
Phase3Step ==
    /\ pc = "phase3"
    /\ todo /= <<>>
    /\ LET order_idx == Head(todo)
           order == orders_df[order_idx]
       IN  IF Phase3Candidates(order) = {}
           THEN UNCHANGED <<technician_working_time, technician_assigned_time,
                            scheduled_order_indices, schedule>>
           ELSE AssignOrder(order_idx, BestBy(Phase3Candidates(order),
                                             [m \in Phase3Candidates(order) |-> Phase3Key(m)]),
                            CapacityFillRemark, 3)
    /\ todo' = Tail(todo)
    /\ UNCHANGED <<pc, shifts_df, technicians_df, merged_orders, orders_df,
                   technicians_assigned_phase1, sessionVars>>

(***************************************************************************)
(* The hand-over to the session                                            *)
(***************************************************************************)
\* The row identifiers of a table.
RowIDsOf(df) == {df[k].ScheduleRowID : k \in 1..Len(df)}

\* Variant: the k-th number, whatever identifiers are in use.
create_schedule_row_id_Counted(used, k) == k

\* create_schedule_row_id: the k-th uuid4 of a call, a value none of the rows in
\* use has; here the k-th number above the identifiers in use.
create_schedule_row_id(used, k) ==
    (IF used = {} THEN 0 ELSE CHOOSE x \in used : \A y \in used : y <= x) + k

\* initialize_schedule_dataframe: the tracking columns of one row.
InitialRow(entry, k, used) ==
    [ScheduleRowID |-> create_schedule_row_id(used, k),
     OrderID |-> entry.OrderID,
     SAP |-> entry.SAP,
     RoutingTime |-> entry.RoutingTime,
     RemainingTime |-> entry.RemainingTime,
     ClassCode |-> entry.ClassCode,
     Priority |-> entry.Priority,
     Technician |-> entry.Technician,
     TechnicianName |-> entry.TechnicianName,
     Status |-> "Planned",
     SequenceNumber |-> k,
     Remark |-> entry.Remark,
     FirstStartTime |-> NoneT,
     EndTime |-> NoneT,
     TotalTimeSpent |-> 0,
     RemainingRoutingTime |-> entry.RoutingTime,
     WorkSessions |-> <<>>]

\* initialize_schedule_dataframe: the table with its tracking columns.  The
\* schedule of a run that scheduled nothing is pd.DataFrame([]), a table without
\* columns, and line 32 (df['Routing Time (min)']) raises KeyError on it.
initialize_schedule_dataframe(df, used) ==
    IF df = <<>>
    THEN [raised |-> TRUE, error |-> "KeyError", df |-> <<>>]
    ELSE [raised |-> FALSE, error |-> "",
          df |-> [k \in 1..Len(df) |-> InitialRow(df[k], k, used)]]

\* The unscheduled output: the rows of orders_df never consumed.
UnscheduledOrders(scheduled) ==
    LET idx == RemainingOrders(scheduled)
    IN  [k \in 1..Len(idx) |-> orders_df[idx[k]]]

\* Config.SCHEDULE_FILE and Config.UNSCHEDULED_FILE: a file that is not there,
\* or the table to_csv wrote to it.
NoFile == [exists |-> FALSE, rows |-> <<>>]

FileOf(df) == [exists |-> TRUE, rows |-> df]

NoFiles == [schedule |-> NoFile, unscheduled |-> NoFile]

\* PersistenceService.save_schedule(schedule_df, unscheduled_df) on the files f,
\* with an unscheduled table that is not None: the schedule is written unless it
\* is empty, the unscheduled orders are written always.
save_schedule(f, schedule_df, unscheduled_df) ==
    [schedule |-> IF schedule_df /= <<>> THEN FileOf(schedule_df) ELSE f.schedule,
     unscheduled |-> FileOf(unscheduled_df)]

\* Lines 309-310 of the final summary.
total_scheduled == Cardinality(scheduled_order_indices)

total_orders == Len(orders_df)

\* Line 313: the summary prints total_scheduled / total_orders * 100, a division
\* of two Python ints; with no orders it raises ZeroDivisionError and the call
\* returns nothing.
FinalSummaryRaises ==
    /\ pc = "phase3"
    /\ todo = <<>>
    /\ total_orders = 0
    /\ pc' = "raised"
    /\ UNCHANGED <<shifts_df, technicians_df, merged_orders, orders_df, engineVars, sessionVars>>

\* Lines 236-244 of app.py: the page stores the initialized schedule and the
\* unscheduled orders in the session, in place of what the session held, and
\* saves both (line 244).
StoreSchedule(schedule_df) ==
    /\ initial_schedule_df' = schedule_df
    /\ unscheduled_orders_df' = UnscheduledOrders(scheduled_order_indices)
    /\ files' = save_schedule(files, initial_schedule_df', unscheduled_orders_df')

\* Lines 335-343 of create_initial_schedule and lines 230-244 of app.py: the run
\* returns, the page initializes the schedule and stores it with the unscheduled
\* orders.  When initialize_schedule_dataframe raises, the page's except clause
\* (line 264) reports the error: the session and the files stay as they were.
Finish ==
    /\ pc = "phase3"
    /\ todo = <<>>
    /\ total_orders /= 0
    /\ LET r == initialize_schedule_dataframe(schedule, RowIDsOf(initial_schedule_df))
       IN  IF r.raised
           THEN /\ pc' = "initialize_raised"
                /\ UNCHANGED <<initial_schedule_df, unscheduled_orders_df, files>>
           ELSE /\ pc' = "ready"
                /\ StoreSchedule(r.df)
    /\ UNCHANGED <<shifts_df, technicians_df, merged_orders, orders_df, engineVars, clock,
                   edits>>

\* Before the run: empty tracking dictionaries, an empty session, no files.
InitDay ==
    /\ orders_df = <<>>
    /\ technician_working_time = <<>>
    /\ technician_assigned_time = <<>>
    /\ scheduled_order_indices = {}
    /\ technicians_assigned_phase1 = {}
    /\ todo = <<>>
    /\ schedule = <<>>
    /\ initial_schedule_df = <<>>
    /\ unscheduled_orders_df = <<>>
    /\ files = NoFiles
    /\ edits = 0

\* The day as it is followed from minute 0 of the clock.
InitRun == InitDay /\ clock = 0

InitCommon == pc = "init" /\ InitRun

\* The day of one technician with 480 minutes and expertise 4 and three orders
\* of 500 (B), 100 (A) and 50 (C) minutes.
EndToEndTechnicians == <<TechRow(1, 4, 480)>>

EndToEndOrders ==
    <<OrderRow(1, 500, PStr("B")), OrderRow(2, 100, PStr("A")),
      OrderRow(3, 50, PStr("C"))>>

InitEngine ==
    /\ shifts_df = <<>>
    /\ \/ /\ technicians_df \in TechTables(MaxTechs)
          /\ merged_orders \in OrderTables(MaxOrders)
       \/ /\ technicians_df = EndToEndTechnicians
          /\ merged_orders = EndToEndOrders
    /\ InitCommon

NextEngine ==
    \/ Prepare
    \/ Phase1Step
    \/ Phase1Exit
    \/ Phase2Step
    \/ Phase2Exit
    \/ Phase3Step
    \/ FinalSummaryRaises
    \/ Finish

SpecEngine == InitEngine /\ [][NextEngine]_vars

\* The run on order tables that spell the priority in every way the mapping
\* knows and in ways it does not, with one technician.
SortPriorities ==
    {PStr("Urgent"), PInt(0), PStr("A"), PStr("a"), PStr("C"), PStr("D"), PNone}

SortRoutingTimes == {100, 350}

SortTables(n) ==
    UNION {{[i \in 1..k |-> OrderRow(i, f[i][1], f[i][2])] :
              f \in [1..k -> SortRoutingTimes \X SortPriorities]} : k \in 0..n}

InitSort ==
    /\ shifts_df = <<>>
    /\ technicians_df = <<TechRow(1, 4, 510)>>
    /\ merged_orders \in SortTables(MaxOrders)
    /\ InitCommon

SpecSort == InitSort /\ [][NextEngine]_vars

\* The run on orders whose routing times lie on and beside the thresholds of
\* the classification, with one technician.
ClassRoutingTimes == {1, 159, 160, 319, 320, 479, 480, 481}

ClassTables(n) ==
    UNION {{[i \in 1..k |-> OrderRow(i, f[i], PNone)] :
              f \in [1..k -> ClassRoutingTimes]} : k \in 0..n}

InitClass ==
    /\ shifts_df = <<>>
    /\ technicians_df = <<TechRow(1, 4, 510)>>
    /\ merged_orders \in ClassTables(MaxOrders)
    /\ InitCommon

SpecClass == InitClass /\ [][NextEngine]_vars

\* The day from the shifts file on: the shift records as they are written
\* (Working, To another, Break, Extra Time), and two orders.
ShiftProfiles ==
    {<<"yes", "no", NaN, NaN>>, <<" Yes ", "NO", 30, 60>>, <<"YES", "no ", NaN, 60>>,
     <<"yes", "no", 60, NaN>>, <<"No", "no", 30, NaN>>, <<"yes", "Yes", NaN, 60>>,
     <<"no", " Yes ", 0, 0>>}

ShiftTables(n) ==
    UNION {{[m \in 1..k |-> ShiftRow(m, f[m][1], f[m][2], f[m][3], f[m][4])] :
              f \in [1..k -> ShiftProfiles]} : k \in 0..n}

ShiftOrderTables ==
    {<<OrderRow(1, 100, PStr("A")), OrderRow(2, 500, PNone)>>, <<>>}

InitShifts ==
    /\ pc = "shifts"
    /\ shifts_df \in ShiftTables(MaxTechs)
    /\ technicians_df = <<>>
    /\ merged_orders \in ShiftOrderTables
    /\ InitRun

NextShifts ==
    \/ CalculateWorkingTime
    \/ NextEngine

SpecShifts == InitShifts /\ [][NextShifts]_vars

(***************************************************************************)
(* ScheduleService                                                         *)
(***************************************************************************)
\* The (df, success, message) a service method returns.
Returned(df, success, text, status, total) ==
    [df |-> df, success |-> success, raised |-> FALSE,
     text |-> text, status |-> status, total |-> total]

\* row_mask.any()
HasRow(df, schedule_row_id) ==
    \E k \in 1..Len(df) : df[k].ScheduleRowID = schedule_row_id

\* df[row_mask].index[0]
RowIndex(df, schedule_row_id) ==
    CHOOSE k \in 1..Len(df) :
        /\ df[k].ScheduleRowID = schedule_row_id
        /\ \A j \in 1..(k - 1) : df[j].ScheduleRowID /= schedule_row_id

\* Variant: only the last session is counted.
calculate_total_session_time_LastOnly(work_sessions) ==
    IF work_sessions = <<>> THEN 0
    ELSE LET session == work_sessions[Len(work_sessions)]
         IN  IF session.stop /= NoneT THEN session.stop - session.start ELSE 0

\* _calculate_total_session_time: minutes over the sessions that have a stop.
RECURSIVE calculate_total_session_time(_)
calculate_total_session_time(work_sessions) ==
    IF work_sessions = <<>> THEN 0
    ELSE LET session == Head(work_sessions)
         IN  (IF session.stop /= NoneT THEN session.stop - session.start ELSE 0)
             + calculate_total_session_time(Tail(work_sessions))

\* Lines 83-84 and 104-105: close the last session if it is open.
CloseCurrentSession(work_sessions, now) ==
    IF work_sessions /= <<>> /\ work_sessions[Len(work_sessions)].stop = NoneT
    THEN [work_sessions EXCEPT ![Len(work_sessions)].stop = now]
    ELSE work_sessions

\* Variant: every start overwrites the first-start timestamp.
StartedRow_Overwrite(row, now) ==
    [row EXCEPT !.Status = "In Progress",
                !.FirstStartTime = now,
                !.WorkSessions = Append(@, [start |-> now, stop |-> NoneT])]

\* Lines 61-73: the row after a start.
StartedRow(row, now) ==
    [row EXCEPT !.Status = "In Progress",
                !.FirstStartTime = IF @ = NoneT THEN now ELSE @,
                !.WorkSessions = Append(@, [start |-> now, stop |-> NoneT])]

\* Variant: a stop leaves the remaining routing time as it was.
StoppedRow_KeepRemaining(row, now) ==
    LET work_sessions == CloseCurrentSession(row.WorkSessions, now)
    IN  [row EXCEPT !.Status = "Partially Completed",
                    !.WorkSessions = work_sessions,
                    !.TotalTimeSpent = calculate_total_session_time(work_sessions)]

\* Lines 80-91: the row after a stop.
StoppedRow(row, now) ==
    LET work_sessions == CloseCurrentSession(row.WorkSessions, now)
        total_time == calculate_total_session_time(work_sessions)
    IN  [row EXCEPT !.Status = "Partially Completed",
                    !.WorkSessions = work_sessions,
                    !.TotalTimeSpent = total_time,
                    !.RemainingRoutingTime = Max(0, row.RoutingTime - total_time)]

\* Variant: an end leaves the current session open.
EndedRow_LeaveOpen(row, now) ==
    [row EXCEPT !.Status = "Completed",
                !.EndTime = now,
                !.TotalTimeSpent = calculate_total_session_time(row.WorkSessions),
                !.RemainingRoutingTime = 0]

\* Lines 100-110: the row after an end.
EndedRow(row, now) ==
    LET work_sessions == CloseCurrentSession(row.WorkSessions, now)
        total_time == calculate_total_session_time(work_sessions)
    IN  [row EXCEPT !.Status = "Completed",
                    !.EndTime = now,
                    !.WorkSessions = work_sessions,
                    !.TotalTimeSpent = total_time,
                    !.RemainingRoutingTime = 0]

\* The statuses each action is allowed from (lines 62, 77, 97).
\* Variant: a start is also accepted on a blocked order.
StartableStatuses_Blocked == {"Planned", "Partially Completed", "Blocked"}

\* Variant: a start is also accepted on an order in progress.
StartableStatuses_InProgress == {"Planned", "Partially Completed", "In Progress"}

StartableStatuses == {"Planned", "Partially Completed"}

StoppableStatuses == {"In Progress"}

EndableStatuses == {"In Progress", "Partially Completed"}

update_order_status(df, schedule_row_id, action, now) ==
    IF ~HasRow(df, schedule_row_id)
    THEN Returned(df, FALSE, "Order not found", "", 0)
    ELSE LET row_idx == RowIndex(df, schedule_row_id)
             row == df[row_idx]
             current_status == row.Status
         IN  IF action = "start"
             THEN IF current_status \notin StartableStatuses
                  THEN Returned(df, FALSE, "Cannot start order with status: ",
                                current_status, 0)
                  ELSE Returned([df EXCEPT ![row_idx] = StartedRow(row, now)],
                                TRUE, "Order started", "", 0)
             ELSE IF action = "stop"
             THEN IF current_status \notin StoppableStatuses
                  THEN Returned(df, FALSE,
                                "Can only stop orders that are in progress", "", 0)
                  ELSE Returned([df EXCEPT ![row_idx] = StoppedRow(row, now)],
                                TRUE, "Order paused. Total time spent: ", "",
                                StoppedRow(row, now).TotalTimeSpent)
             ELSE IF action = "end"
             THEN IF current_status \notin EndableStatuses
                  THEN Returned(df, FALSE, "Cannot complete order with status: ",
                                current_status, 0)
                  ELSE Returned([df EXCEPT ![row_idx] = EndedRow(row, now)],
                                TRUE, "Order completed. Total time: ", "",
                                EndedRow(row, now).TotalTimeSpent)
             ELSE Returned(df, FALSE, "Unknown action: ", "", 0)

\* Variant: the reassignment is accepted whatever the status of the order.
change_technician_AnyStatus(df, schedule_row_id, new_tech_name, new_tech_matricule, new_tech_expertise) ==
    IF ~HasRow(df, schedule_row_id)
    THEN Returned(df, FALSE, "Order not found", "", 0)
    ELSE LET row_idx == RowIndex(df, schedule_row_id)
             row == df[row_idx]
         IN  IF new_tech_expertise < row.ClassCode
             THEN Returned(df, FALSE, "Technician expertise insufficient for order",
                           "", 0)
             ELSE Returned([df EXCEPT ![row_idx].TechnicianName = new_tech_name,
                                      ![row_idx].Technician = new_tech_matricule],
                           TRUE, "Order reassigned", "", 0)

\* Variant: the reassignment is refused when the technician's other orders leave
\* no room for this one.
change_technician_CapacityChecked(df, schedule_row_id, new_tech_name, new_tech_matricule, new_tech_expertise) ==
    IF ~HasRow(df, schedule_row_id)
    THEN Returned(df, FALSE, "Order not found", "", 0)
    ELSE LET row_idx == RowIndex(df, schedule_row_id)
             row == df[row_idx]
             others == SelectSeq(df, LAMBDA r : r.Technician = new_tech_matricule
                                              /\ r.ScheduleRowID /= schedule_row_id)
             load == SumSeq([k \in 1..Len(others) |-> others[k].RoutingTime])
         IN  IF row.Status /= "Planned"
             THEN Returned(df, FALSE,
                           "Can only reassign orders that haven't started yet", "", 0)
             ELSE IF new_tech_expertise < row.ClassCode
             THEN Returned(df, FALSE, "Technician expertise insufficient for order",
                           "", 0)
             ELSE IF load + row.RoutingTime > technician_initial_time[new_tech_matricule]
             THEN Returned(df, FALSE, "Technician has no capacity", "", 0)
             ELSE Returned([df EXCEPT ![row_idx].TechnicianName = new_tech_name,
                                      ![row_idx].Technician = new_tech_matricule],
                           TRUE, "Order reassigned", "", 0)

\* Lines 151-161 of change_technician.
change_technician(df, schedule_row_id, new_tech_name, new_tech_matricule, new_tech_expertise) ==
    IF ~HasRow(df, schedule_row_id)
    THEN Returned(df, FALSE, "Order not found", "", 0)
    ELSE LET row_idx == RowIndex(df, schedule_row_id)
             row == df[row_idx]
         IN  IF row.Status /= "Planned"
             THEN Returned(df, FALSE,
                           "Can only reassign orders that haven't started yet", "", 0)
             ELSE IF new_tech_expertise < row.ClassCode
             THEN Returned(df, FALSE, "Technician expertise insufficient for order",
                           "", 0)
             ELSE Returned([df EXCEPT ![row_idx].TechnicianName = new_tech_name,
                                      ![row_idx].Technician = new_tech_matricule],
                           TRUE, "Order reassigned", "", 0)

\* The rows of df whose priority cell is null (null = TRUE) or is not, in order.
RowsWhere(df, null) ==
    LET Test(r) == (r.Priority.t = "none") = null
    IN  SelectSeq(df, Test)

\* Stable insertion of a row into rows sorted by integer priority.
RECURSIVE InsertByPriority(_, _)
InsertByPriority(r, s) ==
    IF s = <<>> THEN <<r>>
    ELSE IF Head(s).Priority.n < r.Priority.n
         THEN <<Head(s)>> \o InsertByPriority(r, Tail(s))
         ELSE <<r>> \o s

RECURSIVE SortByPriority(_)
SortByPriority(s) ==
    IF s = <<>> THEN <<>>
    ELSE InsertByPriority(Head(s), SortByPriority(Tail(s)))

\* df.sort_values('Priority', na_position='last').reset_index(drop=True) on a
\* column whose non-null cells are all integers: ascending, the null cells last,
\* equal cells in their former order.
sort_values_Priority(df) ==
    SortByPriority(RowsWhere(df, FALSE)) \o RowsWhere(df, TRUE)

\* Whether the comparison of two non-null priority cells raises TypeError: the
\* column holds a string and an integer.
PriorityColumnMixed(df) ==
    /\ \E k \in 1..Len(df) : df[k].Priority.t = "str"
    /\ \E k \in 1..Len(df) : df[k].Priority.t = "int"

\* Line 185: df.at[row_idx, "Priority"] = new_priority, written into the caller's
\* table.
AssignedPriority(df, schedule_row_id, new_priority) ==
    [df EXCEPT ![RowIndex(df, schedule_row_id)].Priority = PInt(new_priority)]

\* change_priority.  The assignment of line 185 is made on the caller's table
\* before the sort of line 188 builds the table that is returned; when the sort
\* raises, the caller's table keeps the assignment.
change_priority(df, schedule_row_id, new_priority) ==
    IF ~HasRow(df, schedule_row_id)
    THEN Returned(df, FALSE, "Order not found", "", 0)
    ELSE LET row_idx == RowIndex(df, schedule_row_id)
             row == df[row_idx]
             assigned == AssignedPriority(df, schedule_row_id, new_priority)
         IN  IF row.Status /= "Planned"
             THEN Returned(df, FALSE,
                           "Can only change priority for Planned orders", "", 0)
             ELSE IF new_priority < 1
             THEN Returned(df, FALSE, "Priority must be at least 1", "", 0)
             ELSE IF PriorityColumnMixed(assigned)
             THEN [df |-> assigned, success |-> FALSE, raised |-> TRUE,
                   text |-> "TypeError", status |-> "", total |-> 0]
             ELSE Returned(sort_values_Priority(assigned), TRUE,
                           "Priority changed", "", 0)

\* Variant: the new value is written before it is validated.
modify_routing_time_WriteFirst(df, schedule_row_id, new_routing_time) ==
    IF ~HasRow(df, schedule_row_id)
    THEN Returned(df, FALSE, "Order not found", "", 0)
    ELSE LET row_idx == RowIndex(df, schedule_row_id)
             row == df[row_idx]
             written == [df EXCEPT ![row_idx].RoutingTime = new_routing_time,
                                   ![row_idx].RemainingRoutingTime = new_routing_time]
         IN  IF row.Status /= "Planned"
             THEN Returned(df, FALSE,
                           "Can only modify routing time for Planned orders", "", 0)
             ELSE IF new_routing_time <= 0
             THEN Returned(written, FALSE, "Routing time must be positive", "", 0)
             ELSE Returned(written, TRUE, "Routing time changed", "", 0)

\* Variant: the remaining routing time is left as it was.
modify_routing_time_KeepRemaining(df, schedule_row_id, new_routing_time) ==
    IF ~HasRow(df, schedule_row_id)
    THEN Returned(df, FALSE, "Order not found", "", 0)
    ELSE LET row_idx == RowIndex(df, schedule_row_id)
             row == df[row_idx]
         IN  IF row.Status /= "Planned"
             THEN Returned(df, FALSE,
                           "Can only modify routing time for Planned orders", "", 0)
             ELSE IF new_routing_time <= 0
             THEN Returned(df, FALSE, "Routing time must be positive", "", 0)
             ELSE Returned([df EXCEPT ![row_idx].RoutingTime = new_routing_time],
                           TRUE, "Routing time changed", "", 0)

\* Lines 200-215 of modify_routing_time.
modify_routing_time(df, schedule_row_id, new_routing_time) ==
    IF ~HasRow(df, schedule_row_id)
    THEN Returned(df, FALSE, "Order not found", "", 0)
    ELSE LET row_idx == RowIndex(df, schedule_row_id)
             row == df[row_idx]
         IN  IF row.Status /= "Planned"
             THEN Returned(df, FALSE,
                           "Can only modify routing time for Planned orders", "", 0)
             ELSE IF new_routing_time <= 0
             THEN Returned(df, FALSE, "Routing time must be positive", "", 0)
             ELSE Returned([df EXCEPT ![row_idx].RoutingTime = new_routing_time,
                                      ![row_idx].RemainingRoutingTime =
                                          new_routing_time],
                           TRUE, "Routing time changed", "", 0)

\* f"Blocked: {block_reason}. Time spent: {time_spent} min"
BlockedRemark(block_reason, time_spent) ==
    [text |-> "Blocked: ", reason |-> block_reason, minutes |-> time_spent]

\* Variant: the difference is not clamped at 0.
BlockedRemaining_Unclamped(routing_time, time_spent) == routing_time - time_spent

\* Line 262: the remaining routing time of a blocked row.
BlockedRemaining(routing_time, time_spent) == Max(0, routing_time - time_spent)

\* Variant: an identifier that is not in the table falls on the first row.
mark_as_blocked_FirstRow(df, schedule_row_id, block_reason, time_spent) ==
    IF df = <<>>
    THEN Returned(df, FALSE, "Order not found", "", 0)
    ELSE LET row_idx == IF HasRow(df, schedule_row_id)
                        THEN RowIndex(df, schedule_row_id) ELSE 1
             row == df[row_idx]
         IN  Returned([df EXCEPT ![row_idx].Status = "Blocked",
                                 ![row_idx].Remark =
                                     BlockedRemark(block_reason, time_spent),
                                 ![row_idx].RemainingRoutingTime =
                                     BlockedRemaining(row.RoutingTime, time_spent)],
                      TRUE, "Order marked as blocked", "", 0)

\* Lines 252-264 of mark_as_blocked.
mark_as_blocked(df, schedule_row_id, block_reason, time_spent) ==
    IF ~HasRow(df, schedule_row_id)
    THEN Returned(df, FALSE, "Order not found", "", 0)
    ELSE LET row_idx == RowIndex(df, schedule_row_id)
             row == df[row_idx]
         IN  Returned([df EXCEPT ![row_idx].Status = "Blocked",
                                 ![row_idx].Remark =
                                     BlockedRemark(block_reason, time_spent),
                                 ![row_idx].RemainingRoutingTime =
                                     BlockedRemaining(row.RoutingTime, time_spent)],
                      TRUE, "Order marked as blocked", "", 0)

(***************************************************************************)
(* reassign_blocked_order                                                  *)
(***************************************************************************)
\* f'Blocked due to: {block_reason}. Technician spent {time_spent} minutes before
\* blocking'
BlockedDueToRemark(block_reason, time_spent) ==
    [text |-> "Blocked due to: ", reason |-> block_reason, minutes |-> time_spent]

\* f'Reassigned from blocked order {blocked_sap}', blocked_sap being the string
\* of line 533.
ReassignedRemark(blocked_sap) ==
    [text |-> "Reassigned from blocked order ", reason |-> blocked_sap,
     minutes |-> 0]

\* The numbers the SAP and matricule cells of these runs hold, and their texts.
CellNumbers == 0..999

NumberTexts == {ToString(n) : n \in CellNumbers}

\* str(blocked_sap), str(technician_id) (lines 533-534) and .astype(str) on a
\* cell: the digits of a number, and a text as it is (ToString shows a text in
\* quotation marks, which tells the two apart).
str(v) ==
    IF ToString(v) \in NumberTexts THEN ToString(v)
    ELSE CHOOSE t \in NumberTexts : ToString(t) = ToString(v)

\* The rows of a technician: schedule_df['Technician Matricule'].astype(str) ==
\* technician_id, technician_id being the string of line 534.
RowsOfTechnician(schedule_df, technician_id) ==
    {k \in 1..Len(schedule_df) : str(schedule_df[k].Technician) = technician_id}

\* blocked_order_index: the rows of the SAP and the technician, both compared as
\* strings.
blocked_order_index(schedule_df, blocked_sap, technician_id) ==
    {k \in RowsOfTechnician(schedule_df, technician_id) :
        str(schedule_df[k].SAP) = blocked_sap}

\* Lines 537-541: the first of those rows gets the status Blocked, the remark
\* and 'Remaining Time' = routing time - time_spent, written into the caller's
\* table (schedule_df.at); without such a row the table stays as it is.
BlockInPlace(schedule_df, blocked_sap, technician_id, time_spent, block_reason) ==
    LET found == blocked_order_index(schedule_df, blocked_sap, technician_id)
    IN  IF found = {} THEN schedule_df
        ELSE LET idx == CHOOSE k \in found : \A j \in found : k <= j
             IN  [schedule_df EXCEPT
                     ![idx].Status = "Blocked",
                     ![idx].Remark = BlockedDueToRemark(block_reason, time_spent),
                     ![idx].RemainingTime = schedule_df[idx].RoutingTime - time_spent]

\* new_row (lines 558-575): the first unscheduled order given to the technician;
\* the columns the dict does not name are NaN after the concat.  blocked_sap and
\* technician_id are the strings of lines 533-534, so the new row's 'Technician
\* Matricule' is a string in a column of numbers.
ReassignedRow(schedule_df, small_order, blocked_sap, technician_id, time_spent) ==
    LET routing_time == small_order.routing
        difference == routing_time - time_spent
        of_technician == RowsOfTechnician(schedule_df, technician_id)
        named == CHOOSE k \in of_technician : \A j \in of_technician : k <= j
    IN  [ScheduleRowID |-> NaN,
         OrderID |-> small_order.OrderID,
         SAP |-> small_order.SAP,
         RoutingTime |-> routing_time,
         RemainingTime |-> IF difference >= 0 THEN 0 ELSE 0 - difference,
         ClassCode |-> NaN,
         Priority |-> PStr(small_order.Priority),
         Technician |-> technician_id,
         TechnicianName |-> schedule_df[named].TechnicianName,
         Status |-> IF difference >= 0 THEN "Completed" ELSE "In Progress",
         SequenceNumber |-> NaN,
         Remark |-> ReassignedRemark(blocked_sap),
         FirstStartTime |-> NaN,
         EndTime |-> NoneT,
         TotalTimeSpent |-> NaN,
         RemainingRoutingTime |-> routing_time,
         WorkSessions |-> NaN]

\* What reassign_blocked_order returns or raises, and what it leaves in the
\* table it was given (callers_df): new_assignment is None (<<>>) or the order
\* taken from the unscheduled table.
Reassigned(schedule_df, unscheduled_df, new_assignment, error, callers_df) ==
    [schedule_df |-> schedule_df, unscheduled_orders_df |-> unscheduled_df,
     new_assignment |-> new_assignment, raised |-> error /= "", error |-> error,
     callers_df |-> callers_df]

\* reassign_blocked_order (lines 532-577); lines 533-534 rebind blocked_sap and
\* technician_id to their strings.  The schedule of a run that scheduled
\* nothing is pd.DataFrame([]), a table without columns (<<>>), on which
\* schedule_df['SAP'] of line 535 raises KeyError before anything is written.
reassign_blocked_order(schedule_df, unscheduled_df, blocked_sap, technician_id, time_spent, block_reason) ==
    LET sap == str(blocked_sap)
        tech == str(technician_id)
        blocked == BlockInPlace(schedule_df, sap, tech, time_spent, block_reason)
        next_order == {k \in RowsOfTechnician(blocked, tech) :
                          blocked[k].Status /= "Blocked"}
    IN  IF schedule_df = <<>>
        THEN Reassigned(schedule_df, unscheduled_df, <<>>, "KeyError", schedule_df)
        ELSE IF next_order /= {}
        THEN Reassigned(blocked, unscheduled_df, <<>>, "", blocked)
        ELSE IF unscheduled_df = <<>>
        THEN Reassigned(blocked, unscheduled_df, <<>>, "ValueError", blocked)
        ELSE IF RowsOfTechnician(blocked, tech) = {}
        THEN Reassigned(blocked, unscheduled_df, <<>>, "IndexError", blocked)
        ELSE Reassigned(Append(blocked,
                               ReassignedRow(blocked, Head(unscheduled_df), sap,
                                             tech, time_spent)),
                        Tail(unscheduled_df), <<Head(unscheduled_df)>>, "", blocked)

(***************************************************************************)
(* The session's operations                                                *)
(***************************************************************************)
\* The inputs the operations are tried with.
StatusActions == {"start", "stop", "end", "pause"}
BlockReasons == {"Wackler"}
BlockMinutes == {60, 600}
NewPriorities == {0, 2}
NewRoutingTimes == {0, 200}

\* Row identifiers to call with: those of the table and one that is not there.
RowIDs ==
    RowIDsOf(initial_schedule_df)
        \cup {create_schedule_row_id(RowIDsOf(initial_schedule_df), 1)}

\* datetime.now(): not before the last reading.
NowChoices == {t \in {clock, clock + TickMinutes} : t <= MaxClock}

\* A start that would open one session more than the model follows.
BeyondSessions(df, schedule_row_id, action) ==
    /\ action = "start"
    /\ HasRow(df, schedule_row_id)
    /\ Len(df[RowIndex(df, schedule_row_id)].WorkSessions) >= MaxSessions

\* A mutator call that changes the table (it succeeds, or raises after its
\* assignment) is followed only while fewer than MaxEdits have been made.
WithinEdits(r) == (r.success \/ r.raised) => edits < MaxEdits

EditsAfter(r) == IF r.success \/ r.raised THEN edits + 1 ELSE edits

\* if success: SessionManager.set('initial_schedule_df', updated_df), which saves
\* the table with the session's unscheduled orders (_auto_save_schedule).
StoredBy(r) ==
    IF r.success THEN save_schedule(files, r.df, unscheduled_orders_df) ELSE files

\* What every operation leaves alone: the inputs and the finished run.
UnchangedRun ==
    UNCHANGED <<pc, shifts_df, technicians_df, merged_orders, orders_df, engineVars,
                unscheduled_orders_df>>

\* _handle_status_action: update_order_status on the session's table.
HandleStatusAction ==
    /\ pc = "ready"
    /\ \E schedule_row_id \in RowIDs, action \in StatusActions, now \in NowChoices :
          /\ ~BeyondSessions(initial_schedule_df, schedule_row_id, action)
          /\ LET r == update_order_status(initial_schedule_df, schedule_row_id,
                                          action, now)
             IN  /\ initial_schedule_df' = r.df
                 /\ files' = StoredBy(r)
                 /\ clock' = IF r.success THEN now ELSE clock
    /\ UNCHANGED edits
    /\ UnchangedRun

\* _render_technician_change: change_technician with a technician of the pool.
ChangeTechnician ==
    /\ pc = "ready"
    /\ \E schedule_row_id \in RowIDs, m \in 1..Len(technicians_df) :
          LET tech == technicians_df[m]
              r == change_technician(initial_schedule_df, schedule_row_id,
                                     tech.Name, tech.Matricule, tech.Expertise)
          IN  /\ WithinEdits(r)
              /\ initial_schedule_df' = r.df
              /\ files' = StoredBy(r)
              /\ edits' = EditsAfter(r)
    /\ UNCHANGED clock
    /\ UnchangedRun

\* ScheduleService.change_priority called with the session's table.  No page
\* calls it and stores what it returns: the session's table keeps the assignment
\* of line 185 in the rows' old order, the sorted table is the call's result
\* only, and nothing is saved.
ChangePriority ==
    /\ pc = "ready"
    /\ \E schedule_row_id \in RowIDs, new_priority \in NewPriorities :
          LET r == change_priority(initial_schedule_df, schedule_row_id,
                                   new_priority)
          IN  /\ WithinEdits(r)
              /\ initial_schedule_df' =
                     IF r.success \/ r.raised
                     THEN AssignedPriority(initial_schedule_df, schedule_row_id,
                                           new_priority)
                     ELSE initial_schedule_df
              /\ edits' = EditsAfter(r)
    /\ UNCHANGED <<clock, files>>
    /\ UnchangedRun

\* _render_time_modification: modify_routing_time on the session's table.
ModifyRoutingTime ==
    /\ pc = "ready"
    /\ \E schedule_row_id \in RowIDs, new_routing_time \in NewRoutingTimes :
          LET r == modify_routing_time(initial_schedule_df, schedule_row_id,
                                       new_routing_time)
          IN  /\ WithinEdits(r)
              /\ initial_schedule_df' = r.df
              /\ files' = StoredBy(r)
              /\ edits' = EditsAfter(r)
    /\ UNCHANGED clock
    /\ UnchangedRun

\* ScheduleService.mark_as_blocked called with the session's table.  No page
\* calls it: its three assignments are made in the session's table (df.at), and
\* nothing is saved.
MarkAsBlocked ==
    /\ pc = "ready"
    /\ \E schedule_row_id \in RowIDs, block_reason \in BlockReasons,
          time_spent \in BlockMinutes :
          LET r == mark_as_blocked(initial_schedule_df, schedule_row_id,
                                   block_reason, time_spent)
          IN  /\ WithinEdits(r)
              /\ initial_schedule_df' = r.df
              /\ edits' = EditsAfter(r)
    /\ UNCHANGED <<clock, files>>
    /\ UnchangedRun

\* The pool and the orders the lifecycle is followed on.
LifeTechnicians == <<TechRow(1, 4, 510), TechRow(2, 1, 400)>>

\* The first table schedules one order and leaves the other, which no technician
\* has the minutes for, to Phase 2, Phase 3 and then unscheduled.  The second
\* fills the first technician but for ten minutes and seeds the second with a
\* short order.  The empty table is the day without orders.
LifeOrderTables ==
    {<<OrderRow(1, 500, PStr("A")), OrderRow(2, 500, PStr("A"))>>,
     <<OrderRow(1, 500, PStr("A")), OrderRow(2, 100, PNone)>>,
     <<>>}

Init ==
    /\ shifts_df = <<>>
    /\ technicians_df = LifeTechnicians
    /\ merged_orders \in LifeOrderTables
    /\ InitCommon

Next ==
    \/ Prepare
    \/ Phase1Step
    \/ Phase1Exit
    \/ Phase2Step
    \/ Phase2Exit
    \/ Phase3Step
    \/ FinalSummaryRaises
    \/ Finish
    \/ HandleStatusAction
    \/ ChangeTechnician
    \/ ChangePriority
    \/ ModifyRoutingTime
    \/ MarkAsBlocked

Spec == Init /\ [][Next]_vars

(***************************************************************************)
(* SchedulePage: the priority update and the manual assignment             *)
(***************************************************************************)
\* selected_technician = None.
NoTechnician == TechRow(0, 0, 0)

\* The options of the page's "New Priority" selectbox.
PriorityOptions == {"Urgent", "0", "A", "B", "C", "None"}

\* df['Priority'].map(priority_mapping).fillna(999) with the page's mapping
\* {'Urgent': 0, '0': 0, 'A': 1, 'B': 2, 'C': 3}: the key of a cell.
temp_priority(p) ==
    IF p.t /= "str" THEN 999
    ELSE IF p.s \in {"Urgent", "0"} THEN 0
    ELSE IF p.s = "A" THEN 1
    ELSE IF p.s = "B" THEN 2
    ELSE IF p.s = "C" THEN 3
    ELSE 999

\* by=['_temp_priority', 'Routing Time (min)'], ascending=[True, False]: row a
\* sorts strictly before row b.
TempBefore(a, b) ==
    \/ temp_priority(a.Priority) < temp_priority(b.Priority)
    \/ /\ temp_priority(a.Priority) = temp_priority(b.Priority)
       /\ a.RoutingTime > b.RoutingTime

\* Stable insertion of a row into rows sorted by the two keys.
RECURSIVE InsertByTemp(_, _)
InsertByTemp(r, s) ==
    IF s = <<>> THEN <<r>>
    ELSE IF TempBefore(Head(s), r)
         THEN <<Head(s)>> \o InsertByTemp(r, Tail(s))
         ELSE <<r>> \o s

\* df.sort_values(by=[...], ascending=[True, False]).reset_index(drop=True)
RECURSIVE sort_values_temp_priority(_)
sort_values_temp_priority(df) ==
    IF df = <<>> THEN <<>>
    ELSE InsertByTemp(Head(df), sort_values_temp_priority(Tail(df)))

\* Variant: the sequence numbers stay as they were.
Resequence_Keep(df) == df

\* df['SequenceNumber'] = range(1, len(df) + 1)
Resequence(df) == [k \in 1..Len(df) |-> [df[k] EXCEPT !.SequenceNumber = k]]

\* The handler of the page's priority button (lines 353-409): the row's priority
\* is written, for Urgent the selected technician too, and the whole table is
\* sorted and renumbered.
update_priority(df, selected_order_id, new_priority, selected_technician) ==
    IF ~HasRow(df, selected_order_id)
    THEN Returned(df, FALSE, "Order not found", "", 0)
    ELSE LET row_idx == RowIndex(df, selected_order_id)
             urgent == new_priority \in {"Urgent", "0"}
             new_priority_value ==
                 IF urgent THEN PStr("Urgent")
                 ELSE IF new_priority = "None" THEN PNone
                 ELSE PStr(new_priority)
             prioritised == [df EXCEPT ![row_idx].Priority = new_priority_value]
             assigned ==
                 IF urgent /\ selected_technician /= NoTechnician
                 THEN [prioritised EXCEPT
                          ![row_idx].Technician = selected_technician.Matricule,
                          ![row_idx].TechnicianName = selected_technician.Name]
                 ELSE prioritised
         IN  IF df[row_idx].Status /= "Planned"
             THEN Returned(df, FALSE,
                           "Can only change priority for Planned orders", "", 0)
             ELSE Returned(Resequence(sort_values_temp_priority(assigned)), TRUE,
                           "Priority", "", 0)

\* The minutes a technician's In Progress rows have used: TotalTimeSpent when it
\* is positive, else the routing time less the remaining routing time.
actual_used_time(df, matricule) ==
    LET Busy(r) == r.Technician = matricule /\ r.Status = "In Progress"
        in_progress_orders == SelectSeq(df, Busy)
    IN  SumSeq([k \in 1..Len(in_progress_orders) |->
                   LET order == in_progress_orders[k]
                   IN  IF order.TotalTimeSpent > 0 THEN order.TotalTimeSpent
                       ELSE order.RoutingTime - order.RemainingRoutingTime])

real_available(df, tech) == tech.WorkingTime - actual_used_time(df, tech.Matricule)

\* The technicians the Urgent selectbox offers: those with minutes left.
available_techs(df) ==
    {technicians_df[m] : m \in {k \in 1..Len(technicians_df) :
                                   real_available(df, technicians_df[k]) > 0}}

\* What the priority form hands to its button: for Urgent or 0 one of the
\* technicians offered (without one the button is not drawn), else None.
TechnicianChoices(df, new_priority) ==
    IF new_priority \in {"Urgent", "0"} THEN available_techs(df) ELSE {NoTechnician}

\* The rows the "Select Order (Planned Only)" selectbox offers.
planned_only(df) == {df[k].ScheduleRowID : k \in {j \in 1..Len(df) : df[j].Status = "Planned"}}

\* _render_priority_change: the button's handler on the session's table.
UpdatePriority ==
    /\ pc = "ready"
    /\ \E selected_order_id \in planned_only(initial_schedule_df),
          new_priority \in PriorityOptions :
          \E selected_technician \in TechnicianChoices(initial_schedule_df, new_priority) :
              LET r == update_priority(initial_schedule_df, selected_order_id,
                                       new_priority, selected_technician)
              IN  /\ WithinEdits(r)
                  /\ initial_schedule_df' = r.df
                  /\ files' = StoredBy(r)
                  /\ edits' = EditsAfter(r)
    /\ UNCHANGED clock
    /\ UnchangedRun

\* The Planned minutes of a technician (lines 738-741).
allocated(df, matricule) ==
    LET Counted(r) == r.Technician = matricule /\ r.Status = "Planned"
        rows == SelectSeq(df, Counted)
    IN  SumSeq([k \in 1..Len(rows) |-> rows[k].RoutingTime])

\* The technicians the assignment selectbox offers: those whose working time
\* less the Planned minutes covers the order's routing time.
can_fit_techs(df, selected_order) ==
    {technicians_df[m] : m \in {k \in 1..Len(technicians_df) :
        technicians_df[k].WorkingTime - allocated(df, technicians_df[k].Matricule)
            >= selected_order.routing}}

\* new_order (lines 859-879): the row the assignment appends.
new_order(schedule_df, selected_order, selected_tech) ==
    [ScheduleRowID |-> create_schedule_row_id(RowIDsOf(schedule_df), 1),
     OrderID |-> selected_order.OrderID,
     SAP |-> selected_order.SAP,
     RoutingTime |-> selected_order.routing,
     RemainingTime |-> selected_order.routing,
     ClassCode |-> selected_order.ClassCode,
     Priority |-> PStr(selected_order.Priority),
     Technician |-> selected_tech.Matricule,
     TechnicianName |-> selected_tech.Name,
     Status |-> "Planned",
     SequenceNumber |-> Len(schedule_df) + 1,
     Remark |-> RemarkText("Manually assigned from unscheduled orders"),
     FirstStartTime |-> NoneT,
     EndTime |-> NoneT,
     TotalTimeSpent |-> 0,
     RemainingRoutingTime |-> selected_order.routing,
     WorkSessions |-> <<>>]

\* pd.concat([schedule_df, pd.DataFrame([new_order])], ignore_index=True)
concat(schedule_df, row) == Append(schedule_df, row)

\* Variant: the first row is dropped, whichever was selected.
drop_First(df, idx) == Tail(df)

\* unscheduled_df.drop(selected_order_idx)
drop(df, idx) == [k \in 1..(Len(df) - 1) |-> IF k < idx THEN df[k] ELSE df[k + 1]]

\* _render_unscheduled_orders: the assignment button's handler.  The schedule is
\* set first, which saves it with the unscheduled orders the session still
\* holds; the unscheduled orders are set after it and are not saved.
AssignUnscheduled ==
    /\ pc = "ready"
    /\ edits < MaxEdits
    /\ \E selected_order_idx \in 1..Len(unscheduled_orders_df) :
          LET selected_order == unscheduled_orders_df[selected_order_idx]
          IN  \E selected_tech \in can_fit_techs(initial_schedule_df, selected_order) :
                  /\ initial_schedule_df' =
                         concat(initial_schedule_df,
                                new_order(initial_schedule_df, selected_order,
                                          selected_tech))
                  /\ files' = save_schedule(files, initial_schedule_df',
                                            unscheduled_orders_df)
                  /\ unscheduled_orders_df' =
                         drop(unscheduled_orders_df, selected_order_idx)
    /\ edits' = edits + 1
    /\ UNCHANGED <<pc, shifts_df, technicians_df, merged_orders, orders_df, engineVars,
                   clock>>

(***************************************************************************)
(* The session: generating again, clearing, starting anew                  *)
(***************************************************************************)
\* The "Generate" button of the scheduling page on the same two uploads, pressed
\* when the session holds a schedule or none: the run starts over, and its end
\* (Finish) puts the new table in the place of the session's.
GenerateSchedule ==
    /\ pc \in {"ready", "empty"}
    /\ edits < MaxEdits
    /\ pc' = "init"
    /\ edits' = edits + 1
    /\ UNCHANGED <<shifts_df, technicians_df, merged_orders, orders_df, engineVars,
                   initial_schedule_df, unscheduled_orders_df, files, clock>>

\* SessionManager.clear_schedule, behind the button drawn when the session holds
\* a schedule: the session's tables are set to None and the files deleted.
ClearSchedule ==
    /\ pc = "ready"
    /\ initial_schedule_df' = <<>>
    /\ unscheduled_orders_df' = <<>>
    /\ files' = NoFiles
    /\ pc' = "empty"
    /\ UNCHANGED <<shifts_df, technicians_df, merged_orders, orders_df, engineVars,
                   clock, edits>>

\* PersistenceService.schedule_exists
schedule_exists(f) == f.schedule.exists

\* The fields pd.read_csv reads as missing (pandas' default NA strings, 'None'
\* among them).
NAStrings ==
    {"", "#N/A", "#N/A N/A", "#NA", "-1.#IND", "-1.#QNAN", "-NaN", "-nan",
     "1.#IND", "1.#QNAN", "<NA>", "N/A", "NA", "NULL", "NaN", "None", "n/a",
     "nan", "null"}

\* The numbers the priority cells of these runs are written with.
FieldNumbers == 0..9

\* A field that reads as an integer, and one that reads as a float.
IsIntegerField(s) == \E n \in FieldNumbers : s = ToString(n)

IsFloatField(s) == \E n \in FieldNumbers : s = ToString(n) \o ".0"

FieldNumber(s) ==
    CHOOSE n \in FieldNumbers : s \in {ToString(n), ToString(n) \o ".0"}

\* to_csv on a Priority cell of the schedule: None and NaN are written as the
\* empty field, a number as its digits, a float with its decimal point.
to_csv_Priority(p) ==
    IF p.t = "none" THEN ""
    ELSE IF p.t = "int" THEN ToString(p.n)
    ELSE IF p.t = "float" THEN ToString(p.n) \o ".0"
    ELSE p.s

\* The dtype pd.read_csv gives a column of fields: object when a field that is
\* not missing is no number, int64 when every field is an integer, float64 when
\* the numbers stand beside a missing field or a float, or nothing is there.
read_csv_dtype(fields) ==
    LET present == {k \in 1..Len(fields) : fields[k] \notin NAStrings}
    IN  IF \E k \in present : ~IsIntegerField(fields[k]) /\ ~IsFloatField(fields[k])
        THEN "object"
        ELSE IF /\ present /= {}
                /\ present = 1..Len(fields)
                /\ \A k \in present : IsIntegerField(fields[k])
        THEN "int64"
        ELSE "float64"

\* pd.read_csv on the Priority column: cell k of the column of fields.  A
\* missing field is NaN; the others are strings in an object column, numbers in
\* a column of numbers.
read_csv_Priority(fields, k) ==
    IF fields[k] \in NAStrings THEN PNone
    ELSE IF read_csv_dtype(fields) = "int64" THEN PInt(FieldNumber(fields[k]))
    ELSE IF read_csv_dtype(fields) = "float64" THEN PFloat(FieldNumber(fields[k]))
    ELSE PStr(fields[k])

\* pd.read_csv on a Remark cell: the empty remark of the engine's rows is the
\* empty field and reads as NaN.
read_csv_Remark(remark) == IF remark.text \in NAStrings THEN NaN ELSE remark

\* pd.read_csv(Config.SCHEDULE_FILE)
read_csv(file) ==
    LET fields == [k \in 1..Len(file.rows) |-> to_csv_Priority(file.rows[k].Priority)]
    IN  [k \in 1..Len(file.rows) |->
            [file.rows[k] EXCEPT !.Priority = read_csv_Priority(fields, k),
                                 !.Remark = read_csv_Remark(@)]]

\* pd.read_csv(Config.UNSCHEDULED_FILE): the orders' Priority column holds the
\* texts of the engine's pre-processing.
read_csv_unscheduled(file) ==
    LET fields == [k \in 1..Len(file.rows) |-> file.rows[k].Priority]
    IN  [k \in 1..Len(file.rows) |->
            [file.rows[k] EXCEPT !.Priority = read_csv_Priority(fields, k)]]

\* PersistenceService.load_schedule: the three values of line 68; the schedule
\* and the technicians are None (here <<>>) without their files, the unscheduled
\* orders an empty table without theirs, and the technicians' file is never
\* written.
load_schedule(f) ==
    <<IF f.schedule.exists THEN read_csv(f.schedule) ELSE <<>>,
      IF f.unscheduled.exists THEN read_csv_unscheduled(f.unscheduled) ELSE <<>>,
      <<>>>>

\* schedule_df, unscheduled_df = PersistenceService.load_schedule(): the
\* assignment to two names raises ValueError unless the tuple has two values.
UnpacksIntoTwo(t) == Len(t) = 2

\* A new session (the page is opened anew) and SessionManager.initialize: the
\* defaults, then _auto_load_schedule.
OpenSession ==
    /\ pc \in {"ready", "empty"}
    /\ LET loaded == load_schedule(files)
       IN  IF ~schedule_exists(files)
           THEN /\ pc' = "empty"
                /\ initial_schedule_df' = <<>>
                /\ unscheduled_orders_df' = <<>>
           ELSE IF ~UnpacksIntoTwo(loaded)
           THEN /\ pc' = "load_raised"
                /\ initial_schedule_df' = <<>>
                /\ unscheduled_orders_df' = <<>>
           ELSE /\ pc' = "ready"
                /\ initial_schedule_df' = loaded[1]
                /\ unscheduled_orders_df' = loaded[2]
    /\ UNCHANGED <<shifts_df, technicians_df, merged_orders, orders_df, engineVars,
                   files, clock, edits>>

\* The days the session is followed on: a day without orders; two orders for one
\* technician, the second given in Phase 2; an order that fills the technician
\* and one left unscheduled; one order and two technicians that can take it; an
\* order that fills the technician and two left unscheduled.
\* The session is followed at one reading of the clock, the last one.
SessionDays ==
    {<<<<TechRow(1, 4, 510)>>, <<>>>>,
     <<<<TechRow(1, 4, 510)>>,
       <<OrderRow(1, 350, PNone), OrderRow(2, 100, PNone)>>>>,
     <<<<TechRow(1, 4, 510)>>,
       <<OrderRow(1, 500, PStr("A")), OrderRow(2, 100, PNone)>>>>,
     <<<<TechRow(1, 4, 510), TechRow(2, 1, 510)>>, <<OrderRow(1, 100, PNone)>>>>,
     <<<<TechRow(1, 4, 510)>>,
       <<OrderRow(1, 500, PStr("A")), OrderRow(2, 100, PNone),
         OrderRow(3, 50, PNone)>>>>}

InitSession ==
    /\ shifts_df = <<>>
    /\ \E day \in SessionDays :
          /\ technicians_df = day[1]
          /\ merged_orders = day[2]
    /\ pc = "init"
    /\ InitDay
    /\ clock = MaxClock

NextSession ==
    \/ Next
    \/ UpdatePriority
    \/ AssignUnscheduled
    \/ GenerateSchedule
    \/ ClearSchedule
    \/ OpenSession

SpecSession == InitSession /\ [][NextSession]_vars

(***************************************************************************)
(* reassign_blocked_order called on the session's tables                   *)
(***************************************************************************)
\* The SAPs and the technicians reassign_blocked_order is tried with: those of
\* the table and of the pool, and 0, which no row has.
BlockedSAPs == {initial_schedule_df[k].SAP : k \in 1..Len(initial_schedule_df)} \cup {0}

TechnicianIDs ==
    {technicians_df[m].Matricule : m \in 1..Len(technicians_df)} \cup {0}

\* reassign_blocked_order has no caller in the sources, so no step of the
\* application takes it.  A caller that hands it the session's tables leaves
\* the assignments of lines 539-541 in the session's schedule either way
\* (schedule_df.at writes into the table it was given); the table with the new
\* row and the shortened unscheduled table are what the call returns, and the
\* caller keeps them (kept) or not.  Nothing is saved.
ReassignBlockedOrder ==
    /\ pc = "ready"
    /\ \E blocked_sap \in BlockedSAPs, technician_id \in TechnicianIDs,
          time_spent \in BlockMinutes, block_reason \in BlockReasons,
          kept \in BOOLEAN :
          LET r == reassign_blocked_order(initial_schedule_df, unscheduled_orders_df,
                                          blocked_sap, technician_id, time_spent,
                                          block_reason)
              stored == kept /\ ~r.raised
              schedule_after == IF stored THEN r.schedule_df ELSE r.callers_df
              unscheduled_after ==
                  IF stored THEN r.unscheduled_orders_df ELSE unscheduled_orders_df
              written == \/ Len(schedule_after) /= Len(initial_schedule_df)
                         \/ r.callers_df /= initial_schedule_df
          IN  /\ written => edits < MaxEdits
              /\ initial_schedule_df' = schedule_after
              /\ unscheduled_orders_df' = unscheduled_after
              /\ edits' = IF written THEN edits + 1 ELSE edits
    /\ UNCHANGED <<pc, shifts_df, technicians_df, merged_orders, orders_df, engineVars,
                   clock, files>>

\* The days of the session with the calls of reassign_blocked_order after the
\* run of the engine.
NextReassign ==
    \/ NextEngine
    \/ ReassignBlockedOrder

SpecReassign == InitSession /\ [][NextReassign]_vars

\* The days the priority update is followed on: three orders C, A, B of which
\* only the C order is within the expertise of the two technicians, so that it
\* is given first and the other two in Phase 3; two orders for one technician;
\* a day without orders.
PriorityDays ==
    {<<<<TechRow(1, 1, 510), TechRow(2, 1, 510)>>,
       <<OrderRow(1, 100, PStr("C")), OrderRow(2, 350, PStr("A")),
         OrderRow(3, 350, PStr("B"))>>>>,
     <<<<TechRow(1, 4, 510)>>,
       <<OrderRow(1, 350, PNone), OrderRow(2, 100, PStr("B"))>>>>,
     <<<<TechRow(1, 4, 510)>>, <<>>>>}

InitPriority ==
    /\ shifts_df = <<>>
    /\ \E day \in PriorityDays :
          /\ technicians_df = day[1]
          /\ merged_orders = day[2]
    /\ pc = "init"
    /\ InitDay
    /\ clock = MaxClock

NextPriority ==
    \/ NextEngine
    \/ HandleStatusAction
    \/ UpdatePriority

SpecPriority == InitPriority /\ [][NextPriority]_vars

(***************************************************************************)
(* SchedulePage: the action buttons of an order card                       *)
(***************************************************************************)
\* _render_action_buttons: the actions whose buttons the card of a row with the
\* status draws.  The branches for Partially Completed, Completed and Blocked
\* stand inside the In Progress branch, under the elif of the End button, where
\* the status is In Progress: none of them is ever taken.
action_buttons(status) ==
    IF status = "Planned" THEN {"start"}
    ELSE IF status = "In Progress"
         THEN {"stop", "end"}
                  \cup (IF status = "Partially Completed" THEN {"start", "end"} ELSE {})
         ELSE {}

\* A button of a card is pressed: _handle_status_action with the button's
\* action on the card's row.
PressActionButton ==
    /\ pc = "ready"
    /\ \E k \in 1..Len(initial_schedule_df), now \in NowChoices :
          \E action \in action_buttons(initial_schedule_df[k].Status) :
              LET schedule_row_id == initial_schedule_df[k].ScheduleRowID
                  r == update_order_status(initial_schedule_df, schedule_row_id,
                                           action, now)
              IN  /\ ~BeyondSessions(initial_schedule_df, schedule_row_id, action)
                  /\ initial_schedule_df' = r.df
                  /\ files' = StoredBy(r)
                  /\ clock' = IF r.success THEN now ELSE clock
    /\ UNCHANGED edits
    /\ UnchangedRun

\* The days of the schedule page as its cards drive them, from minute 0.
InitPage ==
    /\ shifts_df = <<>>
    /\ \E day \in PriorityDays :
          /\ technicians_df = day[1]
          /\ merged_orders = day[2]
    /\ InitCommon

NextPage ==
    \/ NextEngine
    \/ PressActionButton

SpecPage == InitPage /\ [][NextPage]_vars

(***************************************************************************)


(* Properties of the allocation run                                        *)
(***************************************************************************)
\* How many rows of a table carry the order.
CountOrder(table, id) == Cardinality({k \in 1..Len(table) : table[k].OrderID = id})

\* The routing times of the entries assigned to a technician so far, summed.
AssignedSum(mat) ==
    LET mine == SelectSeq(schedule, LAMBDA e : e.Technician = mat)
    IN  SumSeq([k \in 1..Len(mine) |-> mine[k].RoutingTime])

Running == pc \in {"phase1", "phase2", "phase3", "ready", "raised", "initialize_raised"}

\* create_initial_schedule has returned its pair: the entries of schedule and the
\* orders never consumed; the page stored them, or initialize_schedule_dataframe
\* raised on a schedule without entries.
HasReturned == pc \in {"ready", "initialize_raised"}

\* C1: once create_initial_schedule has returned, every input order is in exactly
\* one of the two outputs: the scheduled table and the unscheduled orders hold no
\* order in common and together hold each input order exactly once.
C1_Partition ==
    /\ HasReturned =>
          LET unscheduled == UnscheduledOrders(scheduled_order_indices)
          IN  /\ \A i \in 1..Len(merged_orders) :
                    CountOrder(schedule, merged_orders[i].OrderID)
                        + CountOrder(unscheduled, merged_orders[i].OrderID) = 1
              /\ Len(schedule) + Len(unscheduled) = Len(merged_orders)
    /\ pc = "ready" =>
          /\ \A i \in 1..Len(merged_orders) :
                CountOrder(initial_schedule_df, merged_orders[i].OrderID)
                    + CountOrder(unscheduled_orders_df, merged_orders[i].OrderID) = 1
          /\ Len(initial_schedule_df) + Len(unscheduled_orders_df) = Len(merged_orders)

\* A run that ended with several scheduled orders and an unscheduled one.
C1_Witness ==
    /\ pc = "ready"
    /\ Len(initial_schedule_df) >= 2
    /\ Len(unscheduled_orders_df) >= 1

\* The remaining minutes are the available minutes minus what was assigned.
C2_Balance ==
    Running =>
        \A m \in Range(tech_list) :
            /\ technician_working_time[m] = technician_initial_time[m] - AssignedSum(m)
            /\ technician_assigned_time[m] = AssignedSum(m)
            /\ AssignedSum(m) <= technician_initial_time[m]

\* A step of the run never raises a technician's remaining minutes, and an entry
\* is appended only for a technician whose remaining minutes covered the order.
C2_Step ==
    (Running /\ pc' /= "init") =>
        /\ \A m \in Range(tech_list) :
              technician_working_time'[m] <= technician_working_time[m]
        /\ schedule' /= schedule =>
              /\ Len(schedule') = Len(schedule) + 1
              /\ LET e == schedule'[Len(schedule')]
                 IN  technician_working_time[e.Technician] >= e.RoutingTime

\* C2: at every step of the run each technician's remaining minutes are the
\* available minutes minus the routing times assigned to that technician so far,
\* they never increase, an order goes only to a technician whose remaining minutes
\* cover its routing time, and so the minutes assigned to a technician never
\* exceed the technician's available minutes.
C2_Capacity == []C2_Balance /\ [][C2_Step]_vars

\* A finished run in which a technician holds two orders and an order was left
\* unscheduled because no technician had the minutes for it.
C2_Witness ==
    /\ pc = "ready"
    /\ \E m \in Range(tech_list) :
          Cardinality({k \in 1..Len(schedule) : schedule[k].Technician = m}) >= 2
    /\ \E k \in 1..Len(unscheduled_orders_df) :
          \A m \in Range(tech_list) :
              /\ technician_working_time[m] < unscheduled_orders_df[k].routing
              /\ technician_initial_time[m] >= unscheduled_orders_df[k].routing

\* C3: every entry made by Phase 1 or Phase 2 has a technician whose expertise is
\* at least the order's class code; an entry whose technician's expertise is below
\* the class code was made by Phase 3 and carries the capacity-fill remark, in the
\* run's list and in the table handed to the session.
C3_Expertise ==
    Running =>
        /\ \A k \in 1..Len(schedule) :
              LET e == schedule[k]
              IN  /\ e.Phase \in {1, 2} =>
                        technician_expertise[e.Technician] >= e.ClassCode
                  /\ technician_expertise[e.Technician] < e.ClassCode =>
                        e.Phase = 3 /\ e.Remark = CapacityFillRemark
        /\ pc = "ready" =>
              \A k \in 1..Len(initial_schedule_df) :
                  LET row == initial_schedule_df[k]
                  IN  technician_expertise[row.Technician] < row.ClassCode =>
                          row.Remark = CapacityFillRemark

\* A finished run with an entry of each phase, the Phase 3 one given to a
\* technician below the order's class.
C3_Witness ==
    /\ pc = "ready"
    /\ \E k \in 1..Len(schedule) : schedule[k].Phase = 1
    /\ \E k \in 1..Len(schedule) : schedule[k].Phase = 2
    /\ \E k \in 1..Len(schedule) :
          /\ schedule[k].Phase = 3
          /\ technician_expertise[schedule[k].Technician] < schedule[k].ClassCode
          /\ initial_schedule_df[k].Remark = CapacityFillRemark

(***************************************************************************)
(* Properties of the lifecycle                                             *)
(***************************************************************************)
\* The row an identifier names.
RowOf(df, schedule_row_id) == df[RowIndex(df, schedule_row_id)]

\* The minutes of the closed sessions of a list, summed session by session.
SessionMinutes(ws) ==
    SumSeq([k \in 1..Len(ws) |->
               IF ws[k].stop /= NoneT THEN ws[k].stop - ws[k].start ELSE 0])

HasOpenSession(ws) == \E k \in 1..Len(ws) : ws[k].stop = NoneT

\* The (action, current status) pairs update_order_status accepts, and the status
\* each leads to.
AllowedPairs ==
    {<<"start", "Planned">>, <<"start", "Partially Completed">>,
     <<"stop", "In Progress">>,
     <<"end", "In Progress">>, <<"end", "Partially Completed">>}

TargetStatus(action) ==
    IF action = "start" THEN "In Progress"
    ELSE IF action = "stop" THEN "Partially Completed"
    ELSE "Completed"

\* C4: on every table the session reaches, update_order_status succeeds exactly
\* on start from Planned or Partially Completed, stop from In Progress and end
\* from In Progress or Partially Completed, and then moves the row to In Progress,
\* Partially Completed and Completed; every other pair of action and status fails
\* and leaves the status alone: a start on a row In Progress, and any start, stop
\* or end on a Completed or Blocked row.
C4_Transitions ==
    pc = "ready" =>
        \A id \in RowIDsOf(initial_schedule_df), action \in StatusActions,
           now \in NowChoices :
            LET r == update_order_status(initial_schedule_df, id, action, now)
                from == RowOf(initial_schedule_df, id).Status
                to == RowOf(r.df, id).Status
            IN  /\ r.success <=> <<action, from>> \in AllowedPairs
                /\ r.success => to = TargetStatus(action)
                /\ ~r.success => to = from
                /\ from \in {"Completed", "Blocked"} => ~r.success
                /\ (action = "start" /\ from = "In Progress") => ~r.success

\* A table with a row In Progress, and one with a Completed and a Blocked row.
C4_Witness ==
    /\ pc = "ready"
    /\ \E k \in 1..Len(initial_schedule_df) :
          initial_schedule_df[k].Status = "Completed"
    /\ \E k \in 1..Len(initial_schedule_df) :
          initial_schedule_df[k].Status = "Blocked"

\* The calls of the four operations on a table, with the inputs the session
\* tries: what each returns.
CallsOn(df) ==
    {update_order_status(df, id, action, now) :
        id \in 1..(Len(df) + 1), action \in StatusActions, now \in NowChoices}
    \cup {change_technician(df, id, technicians_df[m].Name,
                            technicians_df[m].Matricule, technicians_df[m].Expertise) :
        id \in 1..(Len(df) + 1), m \in 1..Len(technicians_df)}
    \cup {change_priority(df, id, new_priority) :
        id \in 1..(Len(df) + 1), new_priority \in NewPriorities}
    \cup {modify_routing_time(df, id, new_routing_time) :
        id \in 1..(Len(df) + 1), new_routing_time \in NewRoutingTimes}

\* C5: on every table the session reaches, a call of update_order_status,
\* change_technician, change_priority or modify_routing_time that returns failure
\* (an invalid transition, an unknown action, a failed validation, an unknown
\* row) hands back the table exactly as it was.
C5_FailureLeavesTable ==
    pc = "ready" =>
        \A r \in CallsOn(initial_schedule_df) :
            (~r.success /\ ~r.raised) => r.df = initial_schedule_df

\* A table whose rows have moved on, so that calls of all four operations fail
\* on it: a start on the row in progress, a stop on the Planned row, a
\* reassignment, a priority change and a routing-time change of the row in
\* progress.
C5_Witness ==
    /\ pc = "ready"
    /\ \E k \in 1..Len(initial_schedule_df) :
          initial_schedule_df[k].Status = "In Progress"
    /\ \E k \in 1..Len(initial_schedule_df) :
          initial_schedule_df[k].Status = "Planned"
    /\ \E r \in CallsOn(initial_schedule_df) :
          ~r.success /\ ~r.raised /\ r.text = "Routing time must be positive"
    /\ \E r \in CallsOn(initial_schedule_df) :
          ~r.success /\ ~r.raised /\ r.text = "Cannot start order with status: "
    /\ \E r \in CallsOn(initial_schedule_df) :
          ~r.success /\ ~r.raised /\ r.text = "Priority must be at least 1"
    /\ \E r \in CallsOn(initial_schedule_df) :
          ~r.success /\ ~r.raised
              /\ r.text = "Technician expertise insufficient for order"

\* C6 as stated: in every reachable state every entry has
\* RemainingRoutingTime = max(0, RoutingTime - TotalTimeSpent).
C6_Original ==
    \A k \in 1..Len(initial_schedule_df) :
        LET row == initial_schedule_df[k]
        IN  row.RemainingRoutingTime = Max(0, row.RoutingTime - row.TotalTimeSpent)

\* C6, amended: every entry that is Planned, In Progress or Partially Completed
\* has RemainingRoutingTime = max(0, RoutingTime - TotalTimeSpent); a Completed
\* entry has RemainingRoutingTime 0, and a Blocked entry has
\* max(0, RoutingTime - time_spent) for the minutes its block was called with.
C6_Remaining ==
    \A k \in 1..Len(initial_schedule_df) :
        LET row == initial_schedule_df[k]
        IN  /\ row.Status \in {"Planned", "In Progress", "Partially Completed"} =>
                  row.RemainingRoutingTime =
                      Max(0, row.RoutingTime - row.TotalTimeSpent)
            /\ row.Status = "Completed" => row.RemainingRoutingTime = 0
            /\ row.Status = "Blocked" =>
                  row.RemainingRoutingTime =
                      Max(0, row.RoutingTime - row.Remark.minutes)

\* A paused entry that has used more than its routing time, beside a Completed
\* entry that used less.
C6_Witness ==
    /\ \E k \in 1..Len(initial_schedule_df) :
          LET row == initial_schedule_df[k]
          IN  /\ row.Status = "Partially Completed"
              /\ row.TotalTimeSpent > row.RoutingTime
              /\ row.RemainingRoutingTime = 0
    /\ \E k \in 1..Len(initial_schedule_df) :
          LET row == initial_schedule_df[k]
          IN  /\ row.Status = "Completed"
              /\ row.TotalTimeSpent < row.RoutingTime

\* A step in which the row named id goes from one status to another.
Moves(id, from, to) ==
    /\ HasRow(initial_schedule_df, id)
    /\ HasRow(initial_schedule_df', id)
    /\ RowOf(initial_schedule_df, id).Status \in from
    /\ RowOf(initial_schedule_df', id).Status = to

\* The effect of a stop on a row, read from the states before and after.
C7_Step ==
    \A id \in RowIDsOf(initial_schedule_df) :
        Moves(id, {"In Progress"}, "Partially Completed") =>
            LET a == RowOf(initial_schedule_df, id)
                b == RowOf(initial_schedule_df', id)
                n == Len(a.WorkSessions)
            IN  /\ n >= 1
                /\ a.WorkSessions[n].stop = NoneT
                /\ b.WorkSessions = [a.WorkSessions EXCEPT ![n].stop = clock']
                /\ b.TotalTimeSpent = SessionMinutes(b.WorkSessions)
                /\ b.RemainingRoutingTime =
                       Max(0, b.RoutingTime - b.TotalTimeSpent)
                /\ b.RoutingTime = a.RoutingTime

\* C7: a successful stop makes the entry Partially Completed, closes its open
\* session, the last one, at the current time, sets TotalTimeSpent to the minutes
\* of all closed sessions of the entry and RemainingRoutingTime to
\* max(0, RoutingTime - TotalTimeSpent).
C7_Stop == [][C7_Step]_vars

\* An entry stopped twice: its total is the minutes of both sessions, more than
\* the last session alone.
C7_Witness ==
    \E k \in 1..Len(initial_schedule_df) :
        LET row == initial_schedule_df[k]
        IN  /\ row.Status = "Partially Completed"
            /\ Len(row.WorkSessions) = 2
            /\ row.TotalTimeSpent >
                   row.WorkSessions[2].stop - row.WorkSessions[2].start
            /\ row.WorkSessions[2].stop > row.WorkSessions[2].start

\* The effect of an end on a row, read from the states before and after.
C8_Step ==
    \A id \in RowIDsOf(initial_schedule_df) :
        Moves(id, {"Planned", "In Progress", "Partially Completed", "Blocked"},
              "Completed") =>
            LET a == RowOf(initial_schedule_df, id)
                b == RowOf(initial_schedule_df', id)
                n == Len(a.WorkSessions)
            IN  /\ a.Status \in {"In Progress", "Partially Completed"}
                /\ b.EndTime = clock'
                /\ b.WorkSessions =
                       IF n >= 1 /\ a.WorkSessions[n].stop = NoneT
                       THEN [a.WorkSessions EXCEPT ![n].stop = b.EndTime]
                       ELSE a.WorkSessions
                /\ ~HasOpenSession(b.WorkSessions)
                /\ b.TotalTimeSpent = SessionMinutes(b.WorkSessions)
                /\ b.RemainingRoutingTime = 0

\* An entry is Completed only with every session closed.
C8_Closed ==
    \A k \in 1..Len(initial_schedule_df) :
        initial_schedule_df[k].Status = "Completed" =>
            ~HasOpenSession(initial_schedule_df[k].WorkSessions)

\* C8: a successful end, from In Progress or Partially Completed, makes the entry
\* Completed, records the end timestamp, closes the open session, if there is
\* one, with that timestamp, sets TotalTimeSpent to the minutes of all closed
\* sessions and RemainingRoutingTime to 0, and leaves the entry with no open
\* session.
C8_End == []C8_Closed /\ [][C8_Step]_vars

\* An entry ended while in progress in its second session, with routing time
\* left over.
C8_Witness ==
    \E k \in 1..Len(initial_schedule_df) :
        LET row == initial_schedule_df[k]
        IN  /\ row.Status = "Completed"
            /\ Len(row.WorkSessions) = 2
            /\ row.WorkSessions[2].stop = row.EndTime
            /\ row.WorkSessions[1].stop < row.EndTime
            /\ row.TotalTimeSpent > 0
            /\ row.TotalTimeSpent < row.RoutingTime

\* The effect of a start on a row, and what any step does to the first-start
\* timestamp.
C9_Step ==
    \A id \in RowIDsOf(initial_schedule_df) :
        LET a == RowOf(initial_schedule_df, id)
            b == RowOf(initial_schedule_df', id)
        IN  /\ HasRow(initial_schedule_df', id)
            /\ Moves(id, {"Planned", "Partially Completed", "Completed", "Blocked"},
                     "In Progress") =>
                  /\ a.Status \in {"Planned", "Partially Completed"}
                  /\ b.WorkSessions =
                         Append(a.WorkSessions, [start |-> clock', stop |-> NoneT])
                  /\ b.FirstStartTime =
                         IF a.WorkSessions = <<>> THEN clock' ELSE a.FirstStartTime
            /\ a.FirstStartTime /= NoneT => b.FirstStartTime = a.FirstStartTime
            /\ (a.FirstStartTime = NoneT /\ b.FirstStartTime /= NoneT) =>
                  /\ a.WorkSessions = <<>>
                  /\ a.Status = "Planned"
                  /\ b.Status = "In Progress"
            /\ b.WorkSessions /= a.WorkSessions =>
                  Len(b.WorkSessions) \in {Len(a.WorkSessions), Len(a.WorkSessions) + 1}

\* The first-start timestamp is the start of the entry's first session.
C9_First ==
    \A k \in 1..Len(initial_schedule_df) :
        LET row == initial_schedule_df[k]
        IN  IF row.WorkSessions = <<>>
            THEN row.FirstStartTime = NoneT
            ELSE row.FirstStartTime = row.WorkSessions[1].start

\* C9: a successful start makes the entry In Progress and appends exactly one open
\* session that starts now; the first-start timestamp is written by the entry's
\* first successful start only, and no later start, stop, end or other operation
\* changes it.
C9_Start == []C9_First /\ [][C9_Step]_vars

\* An entry resumed later than it was first started, ended since.
C9_Witness ==
    \E k \in 1..Len(initial_schedule_df) :
        LET row == initial_schedule_df[k]
        IN  /\ row.Status = "Completed"
            /\ Len(row.WorkSessions) = 2
            /\ row.WorkSessions[2].start > row.FirstStartTime
            /\ row.FirstStartTime = row.WorkSessions[1].start

\* C10 as stated: a blocked row's remaining routing time is RoutingTime minus the
\* minutes the block was called with, whatever the minutes.
C10_Original ==
    \A k \in 1..Len(initial_schedule_df) :
        LET row == initial_schedule_df[k]
        IN  row.Status = "Blocked" =>
                row.RemainingRoutingTime = row.RoutingTime - row.Remark.minutes

\* What a block writes, on every row that is Blocked.
C10_Row ==
    \A k \in 1..Len(initial_schedule_df) :
        LET row == initial_schedule_df[k]
        IN  row.Status = "Blocked" =>
                /\ row.Remark.text = "Blocked: "
                /\ row.Remark.reason \in BlockReasons
                /\ row.Remark.minutes \in BlockMinutes
                /\ row.RemainingRoutingTime =
                       Max(0, row.RoutingTime - row.Remark.minutes)

\* A block changes the status, the remark and the remaining routing time of its
\* row and nothing else.
C10_Step ==
    \A id \in RowIDsOf(initial_schedule_df) :
        Moves(id, {"Planned", "In Progress", "Partially Completed", "Completed"},
              "Blocked") =>
            LET a == RowOf(initial_schedule_df, id)
                b == RowOf(initial_schedule_df', id)
            IN  b = [a EXCEPT !.Status = "Blocked",
                              !.Remark = b.Remark,
                              !.RemainingRoutingTime =
                                  Max(0, a.RoutingTime - b.Remark.minutes)]

\* C10, amended: mark_as_blocked on an existing row sets the status to Blocked,
\* writes the reason and the caller's minutes into the remark and sets the
\* remaining routing time to max(0, RoutingTime - time_spent) for the caller's
\* time_spent, not the session total: it is 0 when time_spent exceeds RoutingTime.
C10_Blocked == []C10_Row /\ [][C10_Step]_vars

\* A row blocked with more minutes than its routing time, and more than its
\* sessions hold.
C10_Witness ==
    \E k \in 1..Len(initial_schedule_df) :
        LET row == initial_schedule_df[k]
        IN  /\ row.Status = "Blocked"
            /\ row.Remark.minutes > row.RoutingTime
            /\ row.RemainingRoutingTime = 0
            /\ row.TotalTimeSpent > 0
            /\ row.TotalTimeSpent /= row.Remark.minutes

\* C11 as stated: an entry becomes Blocked only from Planned, In Progress or
\* Partially Completed; no operation makes a Completed entry Blocked.
C11_Step ==
    \A id \in RowIDsOf(initial_schedule_df) :
        (/\ HasRow(initial_schedule_df', id)
         /\ RowOf(initial_schedule_df, id).Status /= "Blocked"
         /\ RowOf(initial_schedule_df', id).Status = "Blocked") =>
            RowOf(initial_schedule_df, id).Status
                \in {"Planned", "In Progress", "Partially Completed"}

C11_Original == [][C11_Step]_vars

(***************************************************************************)
(* Properties of the three phases                                          *)
(***************************************************************************)
\* A technician may take an order at the start of the day: the expertise covers
\* the class code and the available minutes cover the routing time.
Eligible(m, i) ==
    /\ technician_expertise[m] >= orders_df[i].ClassCode
    /\ technician_initial_time[m] >= orders_df[i].routing

\* The ways to give every technician an order of its own that it is eligible for.
OneToOneMatchings ==
    {f \in [Range(tech_list) -> 1..Len(orders_df)] :
        /\ \A m \in Range(tech_list) : Eligible(m, f[m])
        /\ \A m, n \in Range(tech_list) : m /= n => f[m] /= f[n]}

\* The entries Phase 1 made for a technician.
Phase1Entries(m) ==
    {k \in 1..Len(schedule) : schedule[k].Phase = 1 /\ schedule[k].Technician = m}

\* C12 as stated: whenever the orders can be matched one-to-one to all the
\* technicians, each technician eligible for its order, Phase 1 ends with every
\* technician holding exactly one order.
C12_Original ==
    (pc \in {"phase2", "phase3", "ready"} /\ OneToOneMatchings /= {}) =>
        \A m \in Range(tech_list) : Cardinality(Phase1Entries(m)) = 1

\* Whether the technician's expertise is exactly the order's class code.
ExactMatch(m, order) == technician_expertise[m] = order.ClassCode

\* Technician t comes before technician n for the order under (assigned minutes
\* ascending, exact expertise match first, remaining minutes descending), and
\* under the order of tech_list when all three agree.
ComesFirst2(t, n, order) ==
    \/ technician_assigned_time[t] < technician_assigned_time[n]
    \/ /\ technician_assigned_time[t] = technician_assigned_time[n]
       /\ \/ ExactMatch(t, order) /\ ~ExactMatch(n, order)
          \/ /\ ExactMatch(t, order) = ExactMatch(n, order)
             /\ \/ technician_working_time[t] > technician_working_time[n]
                \/ /\ technician_working_time[t] = technician_working_time[n]
                   /\ t < n

\* The step that gives the order at index i to technician t in the given phase:
\* one entry more, the two counters of t moved by the routing time, the index
\* consumed, every other counter as it was.
Gives(i, t, phase) ==
    LET order == orders_df[i]
        e == schedule'[Len(schedule')]
    IN  /\ Len(schedule') = Len(schedule) + 1
        /\ SubSeq(schedule', 1, Len(schedule)) = schedule
        /\ e.OrderID = order.OrderID
        /\ e.Technician = t
        /\ e.Phase = phase
        /\ technician_working_time' =
               [technician_working_time EXCEPT ![t] = @ - order.routing]
        /\ technician_assigned_time' =
               [technician_assigned_time EXCEPT ![t] = @ + order.routing]
        /\ scheduled_order_indices' = scheduled_order_indices \cup {i}

\* The loop of a phase visits, in sorted order, orders no phase has consumed.
InSortedOrder(phase) ==
    pc = phase =>
        /\ \A j, k \in 1..Len(todo) : j < k => todo[j] < todo[k]
        /\ \A j \in 1..Len(todo) : todo[j] \notin scheduled_order_indices

\* One iteration of Phase 2, read from the states before and after.
C13_Step ==
    (pc = "phase2" /\ pc' = "phase2") =>
        /\ todo /= <<>>
        /\ todo' = Tail(todo)
        /\ LET i == Head(todo)
               order == orders_df[i]
               C == {m \in Range(tech_list) :
                        /\ technician_expertise[m] >= order.ClassCode
                        /\ technician_working_time[m] >= order.routing}
           IN  IF C = {}
               THEN UNCHANGED <<technician_working_time, technician_assigned_time,
                                scheduled_order_indices, schedule>>
               ELSE \E t \in C :
                       /\ \A n \in C \ {t} : ComesFirst2(t, n, order)
                       /\ Gives(i, t, 2)
                       /\ schedule'[Len(schedule')].Remark = RemarkText("")

\* Phase 2 starts on all the orders Phase 1 left, in sorted order.
C13_Entry ==
    (pc = "phase1" /\ pc' = "phase2") =>
        todo' = SelectSeq([i \in 1..Len(orders_df) |-> i],
                          LAMBDA i : i \notin scheduled_order_indices)

\* C13: Phase 2 takes the orders Phase 1 left, in sorted order, and gives each to
\* the technician that comes first under (assigned minutes ascending, exact
\* expertise match before higher expertise, remaining minutes descending) among
\* those with expertise >= class code and remaining minutes >= routing time at
\* that moment; an order with no such technician is left unassigned and changes
\* no counter.
C13_Phase2 ==
    /\ []InSortedOrder("phase2")
    /\ [][C13_Step]_vars
    /\ [][C13_Entry]_vars

\* The last order of the run went, in Phase 2, to a technician of exactly its
\* class although a technician of a higher class, earlier in the list, had the
\* same assigned minutes and the time for it.
C13_Witness ==
    /\ pc = "ready"
    /\ schedule /= <<>>
    /\ LET e == schedule[Len(schedule)]
           t == e.Technician
       IN  /\ e.Phase = 2
           /\ technician_expertise[t] = e.ClassCode
           /\ \E n \in Range(tech_list) :
                 /\ n < t
                 /\ technician_expertise[n] > e.ClassCode
                 /\ technician_assigned_time[n] =
                        technician_assigned_time[t] - e.RoutingTime
                 /\ technician_working_time[n] >= e.RoutingTime

\* Technician t comes before technician n under (assigned minutes ascending,
\* remaining minutes descending), and under the order of tech_list when both agree.
ComesFirst3(t, n) ==
    \/ technician_assigned_time[t] < technician_assigned_time[n]
    \/ /\ technician_assigned_time[t] = technician_assigned_time[n]
       /\ \/ technician_working_time[t] > technician_working_time[n]
          \/ /\ technician_working_time[t] = technician_working_time[n]
             /\ t < n

\* One iteration of Phase 3, read from the states before and after.
C14_Step ==
    (pc = "phase3" /\ pc' = "phase3") =>
        /\ todo /= <<>>
        /\ todo' = Tail(todo)
        /\ LET i == Head(todo)
               order == orders_df[i]
               C == {m \in Range(tech_list) :
                        technician_working_time[m] >= order.routing}
           IN  IF C = {}
               THEN UNCHANGED <<technician_working_time, technician_assigned_time,
                                scheduled_order_indices, schedule>>
               ELSE \E t \in C :
                       /\ \A n \in C \ {t} : ComesFirst3(t, n)
                       /\ Gives(i, t, 3)
                       /\ schedule'[Len(schedule')].Remark = CapacityFillRemark

\* Phase 3 starts on all the orders Phase 2 left, and the orders it leaves are
\* the unscheduled output, in sorted order.
C14_Ends ==
    LET left == SelectSeq([i \in 1..Len(orders_df) |-> i],
                          LAMBDA i : i \notin scheduled_order_indices)
    IN  /\ (pc = "phase2" /\ pc' = "phase3") => todo' = left
        /\ (pc = "phase3" /\ pc' = "initialize_raised") =>
              /\ todo = <<>>
              /\ schedule = <<>>
              /\ UnscheduledOrders(scheduled_order_indices) = orders_df
        /\ (pc = "phase3" /\ pc' = "ready") =>
              /\ todo = <<>>
              /\ unscheduled_orders_df' = [k \in 1..Len(left) |-> orders_df[left[k]]]
              /\ \A k \in 1..Len(schedule) :
                    /\ initial_schedule_df'[k].OrderID = schedule[k].OrderID
                    /\ initial_schedule_df'[k].Technician = schedule[k].Technician
                    /\ initial_schedule_df'[k].Remark = schedule[k].Remark

\* C14: Phase 3 takes the orders still unassigned, in sorted order, and gives each
\* to the technician that comes first under (assigned minutes ascending, remaining
\* minutes descending) among all technicians with remaining minutes >= routing
\* time, whatever their expertise, with the capacity-fill remark; an order with
\* no such technician is in the unscheduled output.
C14_Phase3 ==
    /\ []InSortedOrder("phase3")
    /\ [][C14_Step]_vars
    /\ [][C14_Ends]_vars

\* The last order went, in Phase 3, to a technician below its class that had
\* fewer minutes assigned than an earlier technician with the time for it, and a
\* longer order that no technician had the minutes for was left unscheduled.
C14_Witness ==
    /\ pc = "ready"
    /\ schedule /= <<>>
    /\ Len(unscheduled_orders_df) >= 1
    /\ LET e == schedule[Len(schedule)]
           t == e.Technician
       IN  /\ e.Phase = 3
           /\ technician_expertise[t] < e.ClassCode
           /\ initial_schedule_df[Len(schedule)].Remark = CapacityFillRemark
           /\ \E n \in Range(tech_list) :
                 /\ n < t
                 /\ technician_working_time[n] >= e.RoutingTime
                 /\ technician_assigned_time[n] >
                        technician_assigned_time[t] - e.RoutingTime

(***************************************************************************)
(* Properties of the order in which the orders are taken                   *)
(***************************************************************************)
\* The key as the claim spells it: 0 for Urgent or 0, 1 for A, 2 for B, 3 for C,
\* 999 for anything else and for a missing priority.
KeyAsStated(p) ==
    IF p.t = "none" THEN 999
    ELSE IF p.t = "int" THEN (IF p.n = 0 THEN 0 ELSE 999)
    ELSE IF p.s \in {"Urgent", "0"} THEN 0
    ELSE IF p.s = "A" THEN 1
    ELSE IF p.s = "B" THEN 2
    ELSE IF p.s = "C" THEN 3
    ELSE 999

\* The key with the lower-case spellings the mapping also knows.
KeyWithLowerCase(p) ==
    IF p.t = "none" THEN 999
    ELSE IF p.t = "int" THEN (IF p.n = 0 THEN 0 ELSE 999)
    ELSE IF p.s \in {"Urgent", "urgent", "0"} THEN 0
    ELSE IF p.s \in {"A", "a"} THEN 1
    ELSE IF p.s \in {"B", "b"} THEN 2
    ELSE IF p.s \in {"C", "c"} THEN 3
    ELSE 999

\* The input row an order of the sorted table came from; OrderID is the row's
\* place in the input.
InputRow(k) == merged_orders[orders_df[k].OrderID]

\* The sorted table holds every input row once.
IsPermutation ==
    /\ Len(orders_df) = Len(merged_orders)
    /\ \A i \in 1..Len(merged_orders) :
          \E k \in 1..Len(orders_df) : orders_df[k].OrderID = i

\* Rows j and k of the sorted table stand in the order of (key ascending, routing
\* time descending), and in input order when equal on both; the key is the one
\* the claim states, or the one with the lower-case spellings.
InKeyOrder(stated, j, k) ==
    LET a == InputRow(j)
        b == InputRow(k)
        KeyOf(p) == IF stated THEN KeyAsStated(p) ELSE KeyWithLowerCase(p)
    IN  \/ KeyOf(a.Priority) < KeyOf(b.Priority)
        \/ /\ KeyOf(a.Priority) = KeyOf(b.Priority)
           /\ \/ a.routing > b.routing
              \/ a.routing = b.routing /\ a.OrderID < b.OrderID

\* C15: in every phase the orders are considered in the order of (priority key
\* ascending, routing time descending), the key being 0 for Urgent or 0, 1 for A,
\* 2 for B, 3 for C and 999 for any other or missing priority, and orders equal
\* on both keys keep their input order: each row of the sorted table stands
\* before the next under the key of the claim's list.
C15_Original ==
    Running =>
        /\ IsPermutation
        /\ \A j \in 1..(Len(orders_df) - 1) : InKeyOrder(TRUE, j, j + 1)

(***************************************************************************)
(* Properties of the run as a whole                                        *)
(***************************************************************************)
\* C17 as stated: create_initial_schedule never raises and returns a complete
\* pair for every input: with no technician every order is unscheduled, with no
\* order both outputs are empty, and an order no technician can take is
\* unscheduled.
C17_Original ==
    /\ pc /= "raised"
    /\ HasReturned =>
          LET unscheduled == UnscheduledOrders(scheduled_order_indices)
          IN  /\ Len(schedule) + Len(unscheduled) = Len(merged_orders)
              /\ technicians_df = <<>> =>
                    /\ schedule = <<>>
                    /\ Len(unscheduled) = Len(merged_orders)
              /\ merged_orders = <<>> =>
                    schedule = <<>> /\ unscheduled = <<>>

\* The scheduled entries as (order, technician, phase), in order.
Assignments ==
    [k \in 1..Len(schedule) |->
        <<schedule[k].OrderID, schedule[k].RoutingTime, schedule[k].Technician,
          schedule[k].Phase>>]

\* C18: for orders of 500 (B), 100 (A) and 50 (C) minutes and one technician with
\* 480 minutes and expertise 4, Phase 1 assigns the 100-minute order and leaves
\* 380 minutes, Phase 2 leaves the 500-minute order and assigns the 50-minute
\* order, leaving 330 minutes, and the run ends with these two entries scheduled
\* and the 500-minute order unscheduled.
C18_EndToEnd ==
    (technicians_df = EndToEndTechnicians /\ merged_orders = EndToEndOrders) =>
        /\ pc /= "raised"
        /\ pc = "phase2" /\ Len(todo) = 2 =>
              /\ Assignments = <<<<2, 100, 1, 1>>>>
              /\ technician_working_time[1] = 380
              /\ todo = <<2, 3>>
              /\ orders_df[2].routing = 500
        /\ pc \in {"phase3", "ready"} =>
              /\ Assignments = <<<<2, 100, 1, 1>>, <<3, 50, 1, 2>>>>
              /\ technician_working_time[1] = 330
              /\ technician_assigned_time[1] = 150
              /\ scheduled_order_indices = {1, 3}
        /\ pc = "ready" =>
              /\ Len(initial_schedule_df) = 2
              /\ Len(unscheduled_orders_df) = 1
              /\ unscheduled_orders_df[1].OrderID = 1
              /\ unscheduled_orders_df[1].routing = 500
              /\ unscheduled_orders_df[1].Priority = "B"

\* The end of that day's run.
C18_Witness ==
    /\ technicians_df = EndToEndTechnicians
    /\ merged_orders = EndToEndOrders
    /\ pc = "ready"
    /\ Len(initial_schedule_df) = 2

(***************************************************************************)
(* Properties of the reassignment                                          *)
(***************************************************************************)
\* The fields of a schedule row that a reassignment writes.
TechnicianFields == {"Technician", "TechnicianName"}

\* Table b is table a with the row named id given to the technician tech and
\* nothing else changed: the same rows in the same places, every other row and
\* every other field of that row as before.
OnlyReassigned(a, b, id, tech) ==
    /\ Len(b) = Len(a)
    /\ \A k \in 1..Len(a) :
          IF a[k].ScheduleRowID = id
          THEN /\ DOMAIN b[k] = DOMAIN a[k]
               /\ \A f \in DOMAIN a[k] \ TechnicianFields : b[k][f] = a[k][f]
               /\ b[k].Technician = tech.Matricule
               /\ b[k].TechnicianName = tech.Name
          ELSE b[k] = a[k]

\* What change_technician returns on every table the session reaches.
C19_Calls ==
    pc = "ready" =>
        \A id \in RowIDsOf(initial_schedule_df), m \in 1..Len(technicians_df) :
            LET tech == technicians_df[m]
                a == RowOf(initial_schedule_df, id)
                r == change_technician(initial_schedule_df, id, tech.Name,
                                       tech.Matricule, tech.Expertise)
            IN  /\ r.success <=>
                      (a.Status = "Planned" /\ tech.Expertise >= a.ClassCode)
                /\ r.success => OnlyReassigned(initial_schedule_df, r.df, id, tech)
                /\ ~r.success => r.df = initial_schedule_df

\* A step that changes the technician of a row changes nothing else of the
\* table, and the row was Planned and within the new technician's expertise.
C19_Step ==
    \A id \in RowIDsOf(initial_schedule_df) :
        (/\ HasRow(initial_schedule_df', id)
         /\ RowOf(initial_schedule_df', id).Technician
                /= RowOf(initial_schedule_df, id).Technician) =>
            LET a == RowOf(initial_schedule_df, id)
                tech == technicians_df[RowOf(initial_schedule_df', id).Technician]
            IN  /\ a.Status = "Planned"
                /\ tech.Expertise >= a.ClassCode
                /\ OnlyReassigned(initial_schedule_df, initial_schedule_df', id, tech)

\* C19: change_technician succeeds only when the entry is Planned and the new
\* technician's expertise is at least the entry's class code; on success it
\* changes the technician identifier and name of that one row and leaves every
\* other field and every other row as they were.
C19_Reassign == []C19_Calls /\ [][C19_Step]_vars

\* A table in which a Planned row was given to the other technician while
\* another row is in progress.
C19_Witness ==
    /\ pc = "ready"
    /\ \E k \in 1..Len(initial_schedule_df) :
          LET row == initial_schedule_df[k]
          IN  /\ row.Status = "Planned"
              /\ row.Technician /= schedule[row.ScheduleRowID].Technician
    /\ \E k \in 1..Len(initial_schedule_df) :
          initial_schedule_df[k].Status = "In Progress"

\* The routing times of the rows of a table that a technician holds, summed.
LoadOf(df, mat) ==
    LET mine == SelectSeq(df, LAMBDA r : r.Technician = mat)
    IN  SumSeq([k \in 1..Len(mine) |-> mine[k].RoutingTime])

\* C20: change_technician makes no capacity check: on every table the session
\* reaches, a Planned entry goes to any technician of sufficient expertise also
\* when that technician's orders then sum to more than the technician's
\* available minutes, so the capacity bound of the engine's output does not
\* survive a reassignment.
C20_NoCapacityCheck ==
    pc = "ready" =>
        \A id \in RowIDsOf(initial_schedule_df), m \in 1..Len(technicians_df) :
            LET tech == technicians_df[m]
                a == RowOf(initial_schedule_df, id)
                r == change_technician(initial_schedule_df, id, tech.Name,
                                       tech.Matricule, tech.Expertise)
                before == LoadOf(initial_schedule_df, tech.Matricule)
            IN  (/\ a.Status = "Planned"
                 /\ a.Technician /= tech.Matricule
                 /\ tech.Expertise >= a.ClassCode
                 /\ before + a.RoutingTime > tech.WorkingTime) =>
                    /\ r.success
                    /\ LoadOf(r.df, tech.Matricule) = before + a.RoutingTime
                    /\ LoadOf(r.df, tech.Matricule) > tech.WorkingTime

\* A table, after a reassignment, in which a technician holds more minutes of
\* orders than the technician has: the engine's own output respected the bound.
C20_Witness ==
    /\ pc = "ready"
    /\ \A m \in Range(tech_list) : AssignedSum(m) <= technician_initial_time[m]
    /\ \E m \in Range(tech_list) :
          LoadOf(initial_schedule_df, m) > technician_initial_time[m]

(***************************************************************************)
(* Properties of the routing-time change                                   *)
(***************************************************************************)
\* The fields of a schedule row that a routing-time change writes.
RoutingFields == {"RoutingTime", "RemainingRoutingTime"}

\* Table b is table a with the routing time and the remaining routing time of
\* the row named id set to v and nothing else changed.
OnlyRetimed(a, b, id, v) ==
    /\ Len(b) = Len(a)
    /\ \A k \in 1..Len(a) :
          IF a[k].ScheduleRowID = id
          THEN /\ DOMAIN b[k] = DOMAIN a[k]
               /\ \A f \in DOMAIN a[k] \ RoutingFields : b[k][f] = a[k][f]
               /\ b[k].RoutingTime = v
               /\ b[k].RemainingRoutingTime = v
          ELSE b[k] = a[k]

\* What modify_routing_time returns on every table the session reaches.
C23_Calls ==
    pc = "ready" =>
        \A id \in RowIDsOf(initial_schedule_df), v \in NewRoutingTimes :
            LET a == RowOf(initial_schedule_df, id)
                r == modify_routing_time(initial_schedule_df, id, v)
            IN  /\ r.success <=> (a.Status = "Planned" /\ v > 0)
                /\ r.success => OnlyRetimed(initial_schedule_df, r.df, id, v)
                /\ ~r.success => r.df = initial_schedule_df
                /\ v <= 0 => ~r.success

\* A step that changes the routing time of a row was made on a Planned row, with
\* a positive value, and changes nothing else of the table.
C23_Step ==
    \A id \in RowIDsOf(initial_schedule_df) :
        (/\ HasRow(initial_schedule_df', id)
         /\ RowOf(initial_schedule_df', id).RoutingTime
                /= RowOf(initial_schedule_df, id).RoutingTime) =>
            LET a == RowOf(initial_schedule_df, id)
                v == RowOf(initial_schedule_df', id).RoutingTime
            IN  /\ a.Status = "Planned"
                /\ v > 0
                /\ OnlyRetimed(initial_schedule_df, initial_schedule_df', id, v)

\* C23: modify_routing_time succeeds only for a Planned entry and a new value
\* > 0; on success the row's routing time and remaining routing time both equal
\* the new value and nothing else in the table changes; a value <= 0 is rejected.
C23_Retime == []C23_Calls /\ [][C23_Step]_vars

\* A table in which a Planned row carries a routing time other than the one the
\* run gave it, as its remaining routing time, while another row is in progress.
C23_Witness ==
    /\ pc = "ready"
    /\ \E k \in 1..Len(initial_schedule_df) :
          LET row == initial_schedule_df[k]
          IN  /\ row.Status = "Planned"
              /\ row.RoutingTime /= schedule[row.ScheduleRowID].RoutingTime
              /\ row.RemainingRoutingTime = row.RoutingTime
    /\ \E k \in 1..Len(initial_schedule_df) :
          initial_schedule_df[k].Status = "In Progress"

(***************************************************************************)
(* Properties of the calls with an unknown row                             *)
(***************************************************************************)
\* Row identifiers that no row of the session's table has.
UnknownRowIDs ==
    {0, create_schedule_row_id(RowIDsOf(initial_schedule_df), 1)}

\* The calls of the five operations on a table with the row identifier id.
CallsWith(df, id) ==
    {update_order_status(df, id, action, now) :
        action \in StatusActions, now \in NowChoices}
    \cup {mark_as_blocked(df, id, block_reason, time_spent) :
        block_reason \in BlockReasons, time_spent \in BlockMinutes}
    \cup {change_technician(df, id, technicians_df[m].Name,
                            technicians_df[m].Matricule, technicians_df[m].Expertise) :
        m \in 1..Len(technicians_df)}
    \cup {change_priority(df, id, new_priority) : new_priority \in NewPriorities}
    \cup {modify_routing_time(df, id, new_routing_time) :
        new_routing_time \in NewRoutingTimes}

\* C25: on every table the session reaches, update_order_status,
\* mark_as_blocked, change_technician, change_priority and modify_routing_time,
\* called with a row identifier that is not in the table, return a failure,
\* "Order not found", and hand back the table as it was.
C25_NotFound ==
    \A id \in UnknownRowIDs :
        /\ ~HasRow(initial_schedule_df, id)
        /\ CallsWith(initial_schedule_df, id) /= {}
        /\ \A r \in CallsWith(initial_schedule_df, id) :
              /\ ~r.success
              /\ ~r.raised
              /\ r.text = "Order not found"
              /\ r.df = initial_schedule_df

\* A table with a row in progress and a Completed row, on which the calls with
\* an unknown row are made.
C25_Witness ==
    /\ pc = "ready"
    /\ \E k \in 1..Len(initial_schedule_df) :
          initial_schedule_df[k].Status = "In Progress"
    /\ \E k \in 1..Len(initial_schedule_df) :
          initial_schedule_df[k].Status = "Completed"
    /\ \E id \in UnknownRowIDs :
          \E r \in CallsWith(initial_schedule_df, id) :
              r.text = "Order not found" /\ r.df = initial_schedule_df

(***************************************************************************)
(* Properties of the classification                                        *)
(***************************************************************************)
\* The buckets of the thresholds that hold the routing time t, each bucket read
\* as the half-open interval [lo, hi).
BucketsOf(t) ==
    {k \in 1..Len(CLASS_THRESHOLDS) :
        CLASS_THRESHOLDS[k].lo <= t /\ t < CLASS_THRESHOLDS[k].hi}

\* The thresholds start at 0, each bucket starts where the one before ends, and
\* the last has no upper end.
Contiguous ==
    /\ Len(CLASS_THRESHOLDS) = 4
    /\ CLASS_THRESHOLDS[1].lo = 0
    /\ \A k \in 1..(Len(CLASS_THRESHOLDS) - 1) :
          /\ CLASS_THRESHOLDS[k].lo < CLASS_THRESHOLDS[k].hi
          /\ CLASS_THRESHOLDS[k].hi = CLASS_THRESHOLDS[k + 1].lo
    /\ CLASS_THRESHOLDS[Len(CLASS_THRESHOLDS)].hi = Infinity
    /\ [k \in 1..4 |-> CLASS_THRESHOLDS[k].lo] = <<0, 160, 320, 480>>
    /\ [k \in 1..4 |-> <<CLASS_THRESHOLDS[k].class, CLASS_THRESHOLDS[k].code>>]
           = <<<<"Low", 1>>, <<"Medium", 2>>, <<"High", 3>>, <<"Very High", 4>>>>

\* C30: the thresholds are the contiguous half-open buckets [0,160) -> (Low,1),
\* [160,320) -> (Medium,2), [320,480) -> (High,3), [480,inf) -> (Very High,4):
\* the routing time of every order falls in exactly one bucket, whose code is the
\* order's class code, the class code is non-decreasing in the routing time, and
\* 159 -> 1, 160 -> 2, 479 -> 3, 480 -> 4.
C30_Buckets ==
    /\ Contiguous
    /\ \A i \in 1..Len(merged_orders) :
          LET t == merged_orders[i].routing
              code == merged_orders[i].ClassCode
          IN  /\ Cardinality(BucketsOf(t)) = 1
              /\ \A k \in BucketsOf(t) : CLASS_THRESHOLDS[k].code = code
              /\ t = 159 => code = 1
              /\ t = 160 => code = 2
              /\ t = 479 => code = 3
              /\ t = 480 => code = 4
    /\ \A i, j \in 1..Len(merged_orders) :
          merged_orders[i].routing <= merged_orders[j].routing =>
              merged_orders[i].ClassCode <= merged_orders[j].ClassCode

\* A finished run on orders of 159, 160 and 480 minutes, classified 1, 2 and 4.
C30_Witness ==
    /\ pc = "ready"
    /\ Len(merged_orders) = 3
    /\ merged_orders[1].routing = 159 /\ merged_orders[1].ClassCode = 1
    /\ merged_orders[2].routing = 160 /\ merged_orders[2].ClassCode = 2
    /\ merged_orders[3].routing = 480 /\ merged_orders[3].ClassCode = 4

(***************************************************************************)
(* Properties of the working time                                          *)
(***************************************************************************)
\* The ways a shift record says yes and says no.
SaysYes == {"yes", "Yes", "YES", " Yes "}

SaysNo == {"no", "No", "NO", "no "}

\* The shift records of the technicians that work today and are not sent to
\* another line, in the order of the file.
WorkingToday ==
    SelectSeq(shifts_df,
              LAMBDA r : r.Working \in SaysYes /\ r.ToAnother \in SaysNo)

\* C29: calculate_working_time keeps exactly the technicians whose shift record
\* says working = yes and transferred = no, in the order of the shifts file, and
\* gives each of them available minutes = 480 + 30 - break minutes + extra
\* minutes, a missing break or extra value counting as 0.
C29_WorkingTime ==
    pc /= "shifts" =>
        /\ Len(technicians_df) = Len(WorkingToday)
        /\ \A k \in 1..Len(technicians_df) :
              LET r == WorkingToday[k]
                  break == IF r.Break = NaN THEN 0 ELSE r.Break
                  extra == IF r.ExtraTime = NaN THEN 0 ELSE r.ExtraTime
              IN  /\ technicians_df[k].Matricule = r.Matricule
                  /\ technicians_df[k].WorkingTime = 480 + 30 - break + extra

\* A finished run of a day on which the first technician was sent to another
\* line and the second, at work, has no break on record and 60 extra minutes:
\* 570 minutes, of which the run used 100.
C29_Witness ==
    /\ pc = "ready"
    /\ Len(shifts_df) = 2
    /\ shifts_df[1].Working \in SaysYes
    /\ shifts_df[1].ToAnother \in SaysYes
    /\ shifts_df[2].Break = NaN
    /\ Len(technicians_df) = 1
    /\ technicians_df[1].Matricule = 2
    /\ technicians_df[1].WorkingTime = 570
    /\ Len(initial_schedule_df) = 1
    /\ initial_schedule_df[1].Technician = 2

(***************************************************************************)
(* Properties of the priority change                                       *)
(***************************************************************************)
\* The ordinal of a priority cell: Urgent/0 -> 0, A -> 1, B -> 2, C -> 3, anything
\* else or missing -> 999.
PriorityOrdinal(p) == KeyAsStated(p)

\* The table is in the order (priority ordinal ascending, routing time descending).
InPriorityOrder(df) ==
    \A j, k \in 1..Len(df) :
        j < k =>
            \/ PriorityOrdinal(df[j].Priority) < PriorityOrdinal(df[k].Priority)
            \/ /\ PriorityOrdinal(df[j].Priority) = PriorityOrdinal(df[k].Priority)
               /\ df[j].RoutingTime >= df[k].RoutingTime

\* The sequence numbers are 1..N in the order of the rows.
Renumbered(df) == \A k \in 1..Len(df) : df[k].SequenceNumber = k

\* C21: ScheduleService.change_priority succeeds only for a Planned entry, and
\* the table a successful call returns is ordered by (priority ordinal ascending,
\* routing time descending) with the sequence numbers 1..N in that order.
C21_Original ==
    pc = "ready" =>
        \A schedule_row_id \in RowIDs, new_priority \in NewPriorities :
            LET r == change_priority(initial_schedule_df, schedule_row_id,
                                     new_priority)
            IN  r.success =>
                    /\ RowOf(initial_schedule_df, schedule_row_id).Status = "Planned"
                    /\ InPriorityOrder(r.df)
                    /\ Renumbered(r.df)

\* C22: the page's priority update succeeds only on a Planned row and leaves the
\* whole table sorted by (priority ordinal ascending, routing time descending)
\* with the sequence numbers 1..N in that order; on a table whose rows have the
\* priorities C, A, B, changing the C row to Urgent puts that row first with
\* sequence number 1, followed by the A row and the B row.
C22_Calls ==
    pc = "ready" =>
        \A id \in RowIDs, new_priority \in PriorityOptions :
            \A tech \in TechnicianChoices(initial_schedule_df, new_priority) :
                LET df == initial_schedule_df
                    r == update_priority(df, id, new_priority, tech)
                IN  /\ r.success <=>
                           (HasRow(df, id) /\ RowOf(df, id).Status = "Planned")
                    /\ ~r.success => r.df = df
                    /\ r.success =>
                           /\ InPriorityOrder(r.df)
                           /\ Renumbered(r.df)
                           /\ RowIDsOf(r.df) = RowIDsOf(df)
                    /\ (/\ r.success
                        /\ new_priority = "Urgent"
                        /\ Len(df) = 3
                        /\ df[1].ScheduleRowID = id
                        /\ df[1].Priority = PStr("C")
                        /\ df[2].Priority = PStr("A")
                        /\ df[3].Priority = PStr("B")) =>
                           /\ r.df[1].ScheduleRowID = id
                           /\ r.df[1].Priority = PStr("Urgent")
                           /\ r.df[1].SequenceNumber = 1
                           /\ r.df[2] = [df[2] EXCEPT !.SequenceNumber = 2]
                           /\ r.df[3] = [df[3] EXCEPT !.SequenceNumber = 3]

\* A step of the priority update: the only operation of this session that
\* counts an edit.  The row whose priority it wrote was Planned and the table it
\* leaves is sorted and renumbered.
C22_Step ==
    edits' /= edits =>
        /\ InPriorityOrder(initial_schedule_df')
        /\ Renumbered(initial_schedule_df')
        /\ \A id \in RowIDsOf(initial_schedule_df) :
               RowOf(initial_schedule_df', id).Priority
                   /= RowOf(initial_schedule_df, id).Priority =>
                       RowOf(initial_schedule_df, id).Status = "Planned"

C22_PriorityUpdate == []C22_Calls /\ [][C22_Step]_vars

\* The table C, A, B after the C row was made Urgent: it is first, with the
\* sequence numbers 1, 2, 3 down the table, while the A row is In Progress.
C22_Witness ==
    /\ pc = "ready"
    /\ edits = 1
    /\ Len(initial_schedule_df) = 3
    /\ initial_schedule_df[1].OrderID = 1
    /\ initial_schedule_df[1].Priority = PStr("Urgent")
    /\ initial_schedule_df[2].Priority = PStr("A")
    /\ initial_schedule_df[3].Priority = PStr("B")
    /\ initial_schedule_df[2].Status = "In Progress"
    /\ \A k \in 1..3 : initial_schedule_df[k].SequenceNumber = k

(***************************************************************************)
(* Properties of the session's tables                                      *)
(***************************************************************************)
ManualRemark == RemarkText("Manually assigned from unscheduled orders")

\* The rows of a table that carry the order.
RowsOfOrder(df, order_id) == {k \in 1..Len(df) : df[k].OrderID = order_id}

\* A step of one of the schedule's operations: the session holds a schedule
\* before it and after it.
OperationStep == pc = "ready" /\ pc' = "ready"

\* No two rows of the session's schedule have the same identifier.
C24_Distinct ==
    \A j, k \in 1..Len(initial_schedule_df) :
        j /= k =>
            initial_schedule_df[j].ScheduleRowID /= initial_schedule_df[k].ScheduleRowID

\* Every operation leaves each entry its identifier: the row of an order keeps
\* the identifier it had, wherever the operation moves it in the table.
C24_Step ==
    OperationStep =>
        \A k \in 1..Len(initial_schedule_df) :
            \E j \in 1..Len(initial_schedule_df') :
                /\ initial_schedule_df'[j].OrderID = initial_schedule_df[k].OrderID
                /\ initial_schedule_df'[j].ScheduleRowID
                       = initial_schedule_df[k].ScheduleRowID

\* C24: in every state the session reaches the schedule's rows have pairwise
\* distinct row identifiers, and no operation (start, stop, end, block, reassign,
\* either priority change, modify routing time, manual assignment of another
\* order) changes the row identifier of an entry that exists.
C24_RowIDs == []C24_Distinct /\ [][C24_Step]_vars

\* A manually assigned row that was then started and ended, below the row the
\* engine made.
C24_Witness ==
    /\ pc = "ready"
    /\ Len(initial_schedule_df) = 2
    /\ initial_schedule_df[1].Status = "In Progress"
    /\ initial_schedule_df[2].Remark = ManualRemark
    /\ initial_schedule_df[2].Status = "Completed"
    /\ initial_schedule_df[1].ScheduleRowID /= initial_schedule_df[2].ScheduleRowID

\* The orders of a table.
OrderIDsOf(df) == {df[k].OrderID : k \in 1..Len(df)}

\* No order is both in the session's schedule and among its unscheduled orders.
C26_Disjoint ==
    OrderIDsOf(initial_schedule_df) \cap OrderIDsOf(unscheduled_orders_df) = {}

\* A step of the manual assignment: the only operation that shortens the
\* unscheduled table while the session keeps its schedule.  One order leaves the
\* unscheduled table, the others stay as they were; the schedule keeps its rows
\* and gains one Planned row, the only row of that order.
C26_Step ==
    (OperationStep /\ Len(unscheduled_orders_df') < Len(unscheduled_orders_df)) =>
        \E k \in 1..Len(unscheduled_orders_df) :
            LET selected == unscheduled_orders_df[k]
                n == Len(initial_schedule_df)
            IN  /\ Len(unscheduled_orders_df') = Len(unscheduled_orders_df) - 1
                /\ \A j \in 1..Len(unscheduled_orders_df') :
                       unscheduled_orders_df'[j] =
                           unscheduled_orders_df[IF j < k THEN j ELSE j + 1]
                /\ selected.OrderID \notin OrderIDsOf(unscheduled_orders_df')
                /\ Len(initial_schedule_df') = n + 1
                /\ SubSeq(initial_schedule_df', 1, n) = initial_schedule_df
                /\ initial_schedule_df'[n + 1].OrderID = selected.OrderID
                /\ initial_schedule_df'[n + 1].RoutingTime = selected.routing
                /\ initial_schedule_df'[n + 1].Status = "Planned"
                /\ initial_schedule_df'[n + 1].ScheduleRowID
                       \notin RowIDsOf(initial_schedule_df)
                /\ Cardinality(RowsOfOrder(initial_schedule_df', selected.OrderID)) = 1

\* C26: after any sequence of operations that follows an engine run, manual
\* assignments included, no order is in both the session's schedule and the
\* session's unscheduled orders; a manual assignment moves exactly the selected
\* order, which leaves the unscheduled orders and appears once in the schedule,
\* as a new Planned entry.
C26_ManualAssignment == []C26_Disjoint /\ [][C26_Step]_vars

\* Of two unscheduled orders the second was assigned by hand: it is the
\* schedule's second row, Planned, and the first is still unscheduled.
C26_Witness ==
    /\ pc = "ready"
    /\ Len(merged_orders) = 3
    /\ Len(unscheduled_orders_df) = 1
    /\ unscheduled_orders_df[1].OrderID = 2
    /\ Len(initial_schedule_df) = 2
    /\ initial_schedule_df[2].Remark = ManualRemark
    /\ initial_schedule_df[2].Status = "Planned"
    /\ initial_schedule_df[2].OrderID = 3

\* A step in which the session's schedule loses an entry.
EntryRemoved ==
    \E id \in RowIDsOf(initial_schedule_df) : id \notin RowIDsOf(initial_schedule_df')

\* The step of the full clear: the session is left without tables and files.
ClearStep == pc = "ready" /\ pc' = "empty" /\ files' = NoFiles

\* C27: once created, an entry stays in the schedule through every operation of
\* the normal workflow (lifecycle transitions, mutators, manual assignment,
\* generating a schedule); the only operation that removes entries is the full
\* schedule clear: a step in which the schedule loses an entry is the clear.
C27_Original == [][EntryRemoved => ClearStep]_vars

(***************************************************************************)
(* Properties of saving and loading                                        *)
(***************************************************************************)
\* A session is opened on a saved schedule: the step that ends in the state
\* _auto_load_schedule leaves.
OpenedOnSaved ==
    /\ pc \in {"ready", "empty"}
    /\ schedule_exists(files)
    /\ pc' \in {"load_raised", "ready"}
    /\ initial_schedule_df /= <<>>
    /\ initial_schedule_df' /= initial_schedule_df
    /\ UNCHANGED <<files, clock, edits>>

\* C28: save followed by load returns what was saved: when a saved schedule
\* exists and the session holds none, SessionManager.initialize gives the
\* session the schedule and the unscheduled orders that were saved last, each
\* entry with its status and its list of work sessions.
C28_Original ==
    [][OpenedOnSaved =>
           /\ pc' = "ready"
           /\ initial_schedule_df' = files.schedule.rows
           /\ unscheduled_orders_df' = files.unscheduled.rows]_vars

(***************************************************************************)
(* Properties of the failure messages                                      *)
(***************************************************************************)
\* The message of a return names the action: it holds the action's verb.
NamesAction(r, action) ==
    \/ action = "start" /\ r.text = "Cannot start order with status: "
    \/ action = "stop" /\ r.text = "Can only stop orders that are in progress"
    \/ action = "end" /\ r.text = "Cannot complete order with status: "

\* The message of a return names the status: the status is formatted into it.
NamesStatus(r, status) == r.status = status

\* C31: every invalid-transition failure update_order_status returns identifies
\* both the attempted action and the entry's current status, for start, stop
\* and end alike.
C31_Original ==
    pc = "ready" =>
        \A id \in RowIDsOf(initial_schedule_df), action \in {"start", "stop", "end"},
           now \in NowChoices :
            LET r == update_order_status(initial_schedule_df, id, action, now)
                current_status == RowOf(initial_schedule_df, id).Status
            IN  ~r.success =>
                    /\ NamesAction(r, action)
                    /\ NamesStatus(r, current_status)

(***************************************************************************)
(* Properties of the work sessions                                         *)
(***************************************************************************)
\* The places of the open sessions of a list.
OpenSessions(ws) == {k \in 1..Len(ws) : ws[k].stop = NoneT}

\* At most one session of the row is open, and it is the last of the list.
OpenIsLast(row) ==
    /\ Cardinality(OpenSessions(row.WorkSessions)) <= 1
    /\ OpenSessions(row.WorkSessions) \subseteq {Len(row.WorkSessions)}

\* C32 as stated: in every reachable state each entry has at most one open work
\* session, that session is the last one of the entry's list, and the entry has
\* an open session exactly when its status is In Progress.
C32_Original ==
    \A k \in 1..Len(initial_schedule_df) :
        LET row == initial_schedule_df[k]
        IN  /\ OpenIsLast(row)
            /\ HasOpenSession(row.WorkSessions) <=> row.Status = "In Progress"

\* C32 (amended): in every reachable state each entry has at most one open work
\* session, that session is the last one of the entry's list, an entry In
\* Progress has an open session, and an entry with an open session is In
\* Progress or Blocked: mark_as_blocked on an entry In Progress leaves its
\* session open.
C32_OpenSession ==
    \A k \in 1..Len(initial_schedule_df) :
        LET row == initial_schedule_df[k]
        IN  /\ OpenIsLast(row)
            /\ row.Status = "In Progress" => HasOpenSession(row.WorkSessions)
            /\ HasOpenSession(row.WorkSessions) =>
                   row.Status \in {"In Progress", "Blocked"}

\* A row blocked while In Progress, its session still open, beside a row that
\* was stopped and resumed: one closed session and one open.
C32_Witness ==
    /\ pc = "ready"
    /\ \E k \in 1..Len(initial_schedule_df) :
          /\ initial_schedule_df[k].Status = "Blocked"
          /\ HasOpenSession(initial_schedule_df[k].WorkSessions)
    /\ \E k \in 1..Len(initial_schedule_df) :
          /\ initial_schedule_df[k].Status = "In Progress"
          /\ Len(initial_schedule_df[k].WorkSessions) = 2

(***************************************************************************)
(* Properties of the reassignment                                          *)
(***************************************************************************)
\* C33: every operation that replaces an entry's technician rejects a
\* technician whose expertise is below the entry's class code: change_technician
\* does, and so does the reassignment the schedule page performs when a priority
\* is set to Urgent.
C33_Original ==
    pc = "ready" =>
        \A id \in RowIDsOf(initial_schedule_df) :
            LET df == initial_schedule_df
                row == RowOf(df, id)
            IN  /\ \A m \in 1..Len(technicians_df) :
                       LET tech == technicians_df[m]
                           r == change_technician(df, id, tech.Name, tech.Matricule,
                                                  tech.Expertise)
                       IN  tech.Expertise < row.ClassCode => ~r.success
                /\ \A tech \in TechnicianChoices(df, "Urgent") :
                       LET r == update_priority(df, id, "Urgent", tech)
                       IN  (/\ tech.Expertise < row.ClassCode
                            /\ tech.Matricule /= row.Technician) => ~r.success

\* The saved copy holds the tables of the session.
SavedIsSession ==
    /\ files.schedule = FileOf(initial_schedule_df)
    /\ files.unscheduled = FileOf(unscheduled_orders_df)

\* No order is in the saved schedule and among the saved unscheduled orders.
SavedDisjoint ==
    OrderIDsOf(files.schedule.rows) \cap OrderIDsOf(files.unscheduled.rows) = {}

\* C34: after every completed operation that changes the session's schedule or
\* unscheduled set (engine run, lifecycle transition, mutator, manual assignment
\* of an unscheduled order) the saved copy holds the same schedule and the same
\* unscheduled set as the session, so the saved schedule and the saved
\* unscheduled set never contain the same order.
C34_Original ==
    /\ SavedDisjoint
    /\ (pc = "ready" /\ initial_schedule_df /= <<>>) => SavedIsSession

(***************************************************************************)
(* Properties of the order cards                                           *)
(***************************************************************************)
\* The actions that advance an entry of the status: Start for Planned, Stop and
\* End for In Progress, Resume (a start) and End for Partially Completed.
AdvancingActions(status) ==
    IF status = "Planned" THEN {"start"}
    ELSE IF status = "In Progress" THEN {"stop", "end"}
    ELSE IF status = "Partially Completed" THEN {"start", "end"}
    ELSE {}

\* C35: on the schedule page every entry that is neither Completed nor Blocked
\* has its advancing actions available: Start for Planned, Stop and End for In
\* Progress, Resume and End for Partially Completed, so that a started entry can
\* still be driven to Completed after any number of stops.
C35_Original ==
    pc = "ready" =>
        \A k \in 1..Len(initial_schedule_df) :
            LET status == initial_schedule_df[k].Status
            IN  status \notin {"Completed", "Blocked"} =>
                    /\ action_buttons(status) = AdvancingActions(status)
                    /\ "end" \in action_buttons(status)
                           \/ "start" \in action_buttons(status)

(***************************************************************************)
(* Properties of the class code                                            *)
(***************************************************************************)
\* C36: in every reachable state every schedule entry's class code equals the
\* classification of its current routing time (1 below 160, 2 below 320, 3 below
\* 480, 4 otherwise), also after a successful modify_routing_time, so that the
\* expertise check of change_technician uses the class of the current routing
\* time.
C36_Original ==
    \A k \in 1..Len(initial_schedule_df) :
        initial_schedule_df[k].ClassCode = ClassCode(initial_schedule_df[k].RoutingTime)

\* C37: every entry created in Phase 3 has a technician whose expertise is
\* strictly below the order's class code: the technicians that cover the class
\* lacked the minutes when Phase 2 examined the order, and minutes only decrease.
C37_Phase3BelowClass ==
    \A k \in 1..Len(schedule) :
        schedule[k].Phase = 3 =>
            technician_expertise[schedule[k].Technician] < schedule[k].ClassCode

\* A Phase 3 entry exists while a technician that covers its class had too few
\* minutes left for it.
C37_Witness ==
    /\ pc = "ready"
    /\ \E k \in 1..Len(schedule) :
          /\ schedule[k].Phase = 3
          /\ \E n \in Range(tech_list) :
                /\ technician_expertise[n] >= schedule[k].ClassCode
                /\ technician_working_time[n] < schedule[k].RoutingTime

(***************************************************************************)
(* Properties of the sequence numbers                                      *)
(***************************************************************************)
\* The sequence numbers of a table are 1..N without duplicates, and the row at
\* position k holds k.
NumberedInPlace(df) ==
    /\ {df[k].SequenceNumber : k \in 1..Len(df)} = 1..Len(df)
    /\ \A j, k \in 1..Len(df) :
          df[j].SequenceNumber = df[k].SequenceNumber => j = k
    /\ \A k \in 1..Len(df) : df[k].SequenceNumber = k

\* C38: in every reachable state the sequence numbers of the schedule's N entries
\* are exactly 1..N without duplicates and the row at position k holds sequence
\* number k, after initialization, after a manual assignment and after a
\* priority change through ScheduleService.change_priority or the schedule page:
\* the session's table is numbered so, and so is the table a successful
\* change_priority returns for it.
C38_Original ==
    pc = "ready" =>
        /\ NumberedInPlace(initial_schedule_df)
        /\ \A schedule_row_id \in RowIDs, new_priority \in NewPriorities :
              LET r == change_priority(initial_schedule_df, schedule_row_id,
                                       new_priority)
              IN  r.success => NumberedInPlace(r.df)

(***************************************************************************)
(* Properties of the entries that have left Planned                        *)
(***************************************************************************)
\* The three fields the mutators and the page's priority update write.
PlannedOnlyFields(row) ==
    <<row.RoutingTime, row.Priority, row.Technician, row.TechnicianName>>

\* The tables the operations give for a table: what each call of
\* update_order_status, mark_as_blocked, change_technician, change_priority and
\* modify_routing_time on each row returns (for a change_priority that raises,
\* the table it leaves behind in place), and what the page's priority update
\* returns for each row it offers.  No bound on the number of edits applies to
\* them.
TablesAfterCalls(df) ==
    UNION {{r.df : r \in CallsWith(df, target)} : target \in RowIDsOf(df)}
    \cup UNION {{update_priority(df, target, new_priority, selected_technician).df :
                    selected_technician \in TechnicianChoices(df, new_priority)} :
                 target \in planned_only(df), new_priority \in PriorityOptions}

\* Every row of df whose status is in statuses is in the table after, with the
\* routing time, the priority and the technician it had.
FieldsKept(df, after, statuses) ==
    \A id \in RowIDsOf(df) :
        RowOf(df, id).Status \in statuses =>
            /\ HasRow(after, id)
            /\ PlannedOnlyFields(RowOf(after, id)) = PlannedOnlyFields(RowOf(df, id))

LeftPlanned == {"In Progress", "Partially Completed", "Completed", "Blocked"}

\* Every step of an operation keeps the three fields of the rows that have left
\* Planned.
C39_Step ==
    OperationStep => FieldsKept(initial_schedule_df, initial_schedule_df', LeftPlanned)

\* In every table the session holds, every call of every operation on every
\* row keeps the three fields of the rows that have left Planned.
C39_Calls ==
    pc = "ready" =>
        \A after \in TablesAfterCalls(initial_schedule_df) :
            FieldsKept(initial_schedule_df, after, LeftPlanned)

\* C39: an entry's routing time, priority and assigned technician change only
\* while its status is Planned: from the first successful start onward the three
\* fields keep their values under start, stop, end, block, change_technician,
\* change_priority, modify_routing_time and the page's priority update.
C39_PlannedOnly == []C39_Calls /\ [][C39_Step]_vars

\* An entry was started and then blocked; the routing-time change and the
\* change of technician are refused for it and go through for another entry,
\* which is still Planned.
C39_Witness ==
    /\ pc = "ready"
    /\ \E j, k \in 1..Len(initial_schedule_df) :
          LET a == initial_schedule_df[j]
              b == initial_schedule_df[k]
              tech == technicians_df[1]
          IN  /\ a.Status = "Blocked"
              /\ a.WorkSessions /= <<>>
              /\ b.Status = "Planned"
              /\ ~modify_routing_time(initial_schedule_df, a.ScheduleRowID, 200).success
              /\ modify_routing_time(initial_schedule_df, b.ScheduleRowID, 200).success
              /\ ~change_technician(initial_schedule_df, a.ScheduleRowID, tech.Name,
                                    tech.Matricule, tech.Expertise).success
              /\ change_technician(initial_schedule_df, b.ScheduleRowID, tech.Name,
                                   tech.Matricule, tech.Expertise).success

\* Every row of df that is Blocked is Blocked in the table after.
BlockedKept(df, after) ==
    \A id \in RowIDsOf(df) :
        RowOf(df, id).Status = "Blocked" =>
            HasRow(after, id) /\ RowOf(after, id).Status = "Blocked"

\* Every step of an operation leaves a Blocked row Blocked, with its technician,
\* priority and routing time.
C40_Step ==
    OperationStep =>
        /\ BlockedKept(initial_schedule_df, initial_schedule_df')
        /\ FieldsKept(initial_schedule_df, initial_schedule_df', {"Blocked"})

\* In every table the session holds, every call of every operation on every
\* row, a further block among them, leaves the Blocked rows Blocked, with
\* their technician, priority and routing time.
C40_Calls ==
    pc = "ready" =>
        \A after \in TablesAfterCalls(initial_schedule_df) :
            /\ BlockedKept(initial_schedule_df, after)
            /\ FieldsKept(initial_schedule_df, after, {"Blocked"})

\* C40: Blocked is absorbing: once an entry's status is Blocked, no operation
\* (start, stop, end, a further block, change_technician, change_priority,
\* modify_routing_time) changes its status, and its technician, priority and
\* routing time stay fixed.
C40_BlockedAbsorbing == []C40_Calls /\ [][C40_Step]_vars

\* An entry was blocked while in progress, its session still open: a further
\* block with other minutes goes through and rewrites the remark, and the
\* start and the routing-time change are refused.
C40_Witness ==
    /\ pc = "ready"
    /\ \E k \in 1..Len(initial_schedule_df) :
          LET row == initial_schedule_df[k]
              again == mark_as_blocked(initial_schedule_df, row.ScheduleRowID,
                                       "Wackler", 600)
          IN  /\ row.Status = "Blocked"
              /\ row.WorkSessions /= <<>>
              /\ row.Remark.minutes = 60
              /\ again.success
              /\ again.df /= initial_schedule_df
              /\ RowOf(again.df, row.ScheduleRowID).Status = "Blocked"
              /\ ~update_order_status(initial_schedule_df, row.ScheduleRowID,
                                      "start", clock).success
              /\ ~modify_routing_time(initial_schedule_df, row.ScheduleRowID,
                                      200).success

====
